---- MODULE Spec2Model ----
(***************************************************************************)
(* A model of the neighbor-mapper discovery engine (src/app):              *)
(*   - parsers.py    merge_neighbor_info                                   *)
(*   - device_detector.py  DeviceTypeDetector                              *)
(*   - discovery.py  Topology, TopologyDiscoverer.discover                 *)
(*                                                                         *)
(* Python dicts are functions whose DOMAIN is the set of keys present.     *)
(* Names, addresses and interface names are strings; platform, capability  *)
(* and description texts are sequences of word tokens.                     *)
(***************************************************************************)
EXTENDS Integers, Sequences, FiniteSets, TLC

VARIABLES
    \* ---- merge_neighbor_info, run on its own (SpecMerge)
    mpc,             \* "input" before the call, "merged" after it
    cdp_neighbors,   \* first argument
    lldp_neighbors,  \* second argument
    merged_result,   \* the returned list
    \* ---- TopologyDiscoverer (Spec)
    pc,              \* "idle" | "loop" | "nbr" | "done"
    max_depth,       \* self.max_depth
    filters,         \* the filter set the caller asks for
    devices,         \* self.topology.devices: hostname -> Device
    visited,         \* self.visited
    queue,           \* the local deque of <<ip, device_type, depth>>
    cur,             \* the frontier entry being processed, with its hostname
    neighbors,       \* merged records of cur not yet processed
    sessions,        \* addresses with a session that was opened and not closed
    outcome,         \* "none" | "returned" | "raised": how discover ended
    hist,            \* history of the run (observations only, never read by the code)
    \* ---- one call of a pure function (SpecClassify, SpecRender, SpecParse)
    fpc,             \* "call" before the call, "returned" after it
    args,            \* the arguments
    ret              \* what the call returned

mergeVars == <<mpc, cdp_neighbors, lldp_neighbors, merged_result>>
crawlVars == <<pc, max_depth, filters, devices, visited, queue, cur, neighbors,
               sessions, outcome, hist>>
fnVars == <<fpc, args, ret>>
vars == <<mpc, cdp_neighbors, lldp_neighbors, merged_result,
          pc, max_depth, filters, devices, visited, queue, cur, neighbors,
          sessions, outcome, hist, fpc, args, ret>>

----------------------------------------------------------------------------
(* Bounds *)

\* most records given to merge_neighbor_info on its own, both lists together
MaxRecs == 3
\* most neighbor records the devices of one crawl report, all polls together
MaxReported == 3
\* largest max_depth a TopologyDiscoverer is constructed with
MaxDepthArg == 1

----------------------------------------------------------------------------
(* Python values *)

None == "<None>"

\* dict.get(f, d)
Get(r, f, d) == IF f \in DOMAIN r THEN r[f] ELSE d

\* r[f] = v
SetField(r, f, v) == [x \in (DOMAIN r) \cup {f} |-> IF x = f THEN v ELSE r[x]]

\* a dict literal given as a set of <<field, value>> pairs
Dict(pairs) == [f \in {p[1] : p \in pairs} |-> (CHOOSE p \in pairs : p[1] = f)[2]]

\* all lists over S of length at most n
SeqUpTo(S, n) == UNION {[1..k -> S] : k \in 0..n}

\* An insertion-ordered dict: a sequence of [k |-> key, v |-> value].
DictIndex(d, key) ==
    IF \E i \in DOMAIN d : d[i].k = key
    THEN CHOOSE i \in DOMAIN d : d[i].k = key
    ELSE 0

DictHas(d, key) == DictIndex(d, key) # 0

DictGet(d, key) == d[DictIndex(d, key)].v

\* mutant: a key that is assigned again moves to the end
DictPutMovesToEnd(d, key, v) ==
    Append(SelectSeq(d, LAMBDA e : e.k # key), [k |-> key, v |-> v])

\* d[key] = v: an existing key keeps its place
DictPut(d, key, v) ==
    IF DictHas(d, key)
    THEN [d EXCEPT ![DictIndex(d, key)].v = v]
    ELSE Append(d, [k |-> key, v |-> v])

DictValues(d) == [i \in DOMAIN d |-> d[i].v]

----------------------------------------------------------------------------
(* parsers.py: merge_neighbor_info *)

\* mutant: the address is preferred to the name
MergeKeyIpFirst(neighbor) ==
    IF Get(neighbor, "remote_ip", "") # ""
    THEN Get(neighbor, "remote_ip", "")
    ELSE Get(neighbor, "remote_device", "")

\* neighbor.get('remote_device', '') or neighbor.get('remote_ip', '')
MergeKey(neighbor) ==
    IF Get(neighbor, "remote_device", "") # ""
    THEN Get(neighbor, "remote_device", "")
    ELSE Get(neighbor, "remote_ip", "")

\* mutant: the CDP record is stored without its protocol tag
CdpStepUntagged(merged, neighbor) ==
    LET key == MergeKey(neighbor) IN
    IF key # "" THEN DictPut(merged, key, neighbor) ELSE merged

\* one iteration of the CDP loop
CdpStep(merged, neighbor) ==
    LET key == MergeKey(neighbor) IN
    IF key # ""
    THEN DictPut(merged, key, SetField(neighbor, "protocols", <<"CDP">>))
    ELSE merged

BackfillFields == <<"remote_ip", "remote_intf", "local_intf">>

\* mutant: the LLDP value replaces the one already there
BackfillOverwrites(m, neighbor) ==
    [f \in (DOMAIN m) \cup ({BackfillFields[i] : i \in 1..3} \cap DOMAIN neighbor) |->
        IF f \in {BackfillFields[i] : i \in 1..3} /\ f \in DOMAIN neighbor
        THEN neighbor[f] ELSE m[f]]

\* for field in [...]: if field not in merged[key] and field in neighbor
Backfill(m, neighbor) ==
    [f \in (DOMAIN m) \cup ({BackfillFields[i] : i \in 1..3} \cap DOMAIN neighbor) |->
        IF f \in DOMAIN m THEN m[f] ELSE neighbor[f]]

\* the update of an existing entry by an LLDP record with the same key
LldpMergeInto(m, neighbor) ==
    LET filled == Backfill(m, neighbor)
        tagged == [filled EXCEPT !["protocols"] = Append(@, "LLDP")]
    IN  IF "system_description" \in DOMAIN neighbor
           /\ neighbor["system_description"] # <<>>
        THEN SetField(tagged, "system_description", neighbor["system_description"])
        ELSE tagged

\* one iteration of the LLDP loop
LldpStep(merged, neighbor) ==
    LET key == MergeKey(neighbor) IN
    IF key = "" THEN merged
    ELSE IF DictHas(merged, key)
         THEN DictPut(merged, key, LldpMergeInto(DictGet(merged, key), neighbor))
         ELSE DictPut(merged, key, SetField(neighbor, "protocols", <<"LLDP">>))

RECURSIVE CdpLoop(_, _)
CdpLoop(merged, cdp) ==
    IF cdp = <<>> THEN merged
    ELSE CdpLoop(CdpStep(merged, Head(cdp)), Tail(cdp))

RECURSIVE LldpLoop(_, _)
LldpLoop(merged, lldp) ==
    IF lldp = <<>> THEN merged
    ELSE LldpLoop(LldpStep(merged, Head(lldp)), Tail(lldp))

merge_neighbor_info(cdp, lldp) ==
    DictValues(LldpLoop(CdpLoop(<<>>, cdp), lldp))

----------------------------------------------------------------------------
(* device_detector.py: DeviceTypeDetector *)

\* str.upper() and str.lower() on the word tokens the model uses
UpperTable ==
    [t \in {"Router", "Switch", "Phone", "Host", "Trans-Bridge", "IGMP",
             "Bridge", "Station"} |->
        CASE t = "Router" -> "ROUTER"
          [] t = "Switch" -> "SWITCH"
          [] t = "Phone" -> "PHONE"
          [] t = "Host" -> "HOST"
          [] t = "Trans-Bridge" -> "TRANS-BRIDGE"
          [] t = "IGMP" -> "IGMP"
          [] t = "Bridge" -> "BRIDGE"
          [] t = "Station" -> "STATION"]

Upper(t) == IF t \in DOMAIN UpperTable THEN UpperTable[t] ELSE t

LowerTable ==
    [t \in {"Cisco", "IOS", "Software", "WS-C3750X", "WS-C2960X", "IP", "Phone",
             "Nexus", "NX-OS"} |->
        CASE t = "Cisco" -> "cisco"
          [] t = "Nexus" -> "nexus"
          [] t = "NX-OS" -> "nx-os"
          [] t = "IOS" -> "ios"
          [] t = "Software" -> "software"
          [] t = "WS-C3750X" -> "ws-c3750x"
          [] t = "WS-C2960X" -> "ws-c2960x"
          [] t = "IP" -> "ip"
          [] t = "Phone" -> "phone"]

Lower(t) == IF t \in DOMAIN LowerTable THEN LowerTable[t] ELSE t

LowerText(text) == [i \in DOMAIN text |-> Lower(text[i])]

\* pattern in text, on texts that are already lower-cased
Contains(text, pattern) ==
    \E i \in 0..(Len(text) - Len(pattern)) :
        \A j \in 1..Len(pattern) : text[i + j] = pattern[j]

\* _get_default_patterns: the configuration used when no file is found
DefaultPatterns ==
    [device_types |->
        << [id |-> "cisco_ios",
            platforms |-> << <<"cisco">>, <<"catalyst">> >>,
            system_descriptions |-> << <<"IOS">> >>,
            priority |-> 50] >>,
     allowed_capabilities |-> {"Router", "Switch", "R", "S", "B"},
     default_device_type |-> "cisco_ios"]

\* set(capabilities.replace(',', ' ').upper().split())
CapsOf(capabilities) == {Upper(capabilities[i]) : i \in DOMAIN capabilities}

\* a categorisation that looks for a switch before it looks for a router
CategorizeSwitchFirst(caps) ==
    IF caps \cap {"WLAN", "W", "AP"} # {} THEN "ap"
    ELSE IF "TRANS-BRIDGE" \in caps THEN "ap"
    ELSE IF caps \cap {"SWITCH", "S", "BRIDGE", "B"} # {} THEN "switch"
    ELSE IF caps \cap {"ROUTER", "R"} # {} THEN "router"
    ELSE IF caps \cap {"PHONE", "P", "T"} # {} THEN "phone"
    ELSE IF caps \cap {"HOST", "H", "STATION"} # {} THEN "server"
    ELSE "other"

_categorize_device(caps) ==
    IF caps \cap {"WLAN", "W", "AP"} # {} THEN "ap"
    ELSE IF "TRANS-BRIDGE" \in caps THEN "ap"
    ELSE IF caps \cap {"ROUTER", "R"} # {} THEN "router"
    ELSE IF caps \cap {"SWITCH", "S", "BRIDGE", "B"} # {} THEN "switch"
    ELSE IF caps \cap {"PHONE", "P", "T"} # {} THEN "phone"
    ELSE IF caps \cap {"HOST", "H", "STATION"} # {} THEN "server"
    ELSE "other"

\* the filters key that _should_crawl reads for a category
FilterKey(category) ==
    CASE category = "router" -> "include_routers"
      [] category = "switch" -> "include_switches"
      [] category = "phone" -> "include_phones"
      [] category = "server" -> "include_servers"
      [] category = "ap" -> "include_aps"
      [] OTHER -> "include_other"

\* filters=None, kept apart from every dict of filters
NoFilters == [is_none |-> TRUE]

IsNoFilters(flt) == "is_none" \in DOMAIN flt

\* mutant: a neighbor without capabilities is crawlable whatever the filters
ShouldCrawlEmptyAlways(capabilities, flt) ==
    IF capabilities = <<>>
    THEN TRUE
    ELSE IF IsNoFilters(flt)
         THEN CapsOf(capabilities)
                \cap {Upper(c) : c \in DefaultPatterns.allowed_capabilities} # {}
         ELSE Get(flt, FilterKey(_categorize_device(CapsOf(capabilities))), FALSE)

_should_crawl(capabilities, flt) ==
    IF capabilities = <<>>
    THEN IF IsNoFilters(flt) THEN TRUE
         ELSE Get(flt, "include_routers", TRUE) \/ Get(flt, "include_switches", TRUE)
    ELSE IF IsNoFilters(flt)
         THEN CapsOf(capabilities)
                \cap {Upper(c) : c \in DefaultPatterns.allowed_capabilities} # {}
         ELSE Get(flt, FilterKey(_categorize_device(CapsOf(capabilities))), FALSE)

\* mutant: a description match counts as much as a platform match
Score2Unweighted(config, platform_lower, desc_lower) ==
    (IF \E i \in DOMAIN config.platforms :
            Contains(platform_lower, LowerText(config.platforms[i]))
     THEN 2 * config.priority ELSE 0)
    + (IF \E i \in DOMAIN config.system_descriptions :
            Contains(desc_lower, LowerText(config.system_descriptions[i]))
       THEN 2 * config.priority ELSE 0)

\* twice the score _match_patterns gives a profile (so that the half stays whole)
Score2(config, platform_lower, desc_lower) ==
    (IF \E i \in DOMAIN config.platforms :
            Contains(platform_lower, LowerText(config.platforms[i]))
     THEN 2 * config.priority ELSE 0)
    + (IF \E i \in DOMAIN config.system_descriptions :
            Contains(desc_lower, LowerText(config.system_descriptions[i]))
       THEN config.priority ELSE 0)

\* the list matches: (device_type, score) of the profiles that score above 0,
\* in declared order, from profile i on
RECURSIVE Matches(_, _, _, _)
Matches(types, platform_lower, desc_lower, i) ==
    IF i > Len(types) THEN <<>>
    ELSE LET score == Score2(types[i], platform_lower, desc_lower)
         IN  (IF score > 0 THEN <<[id |-> types[i].id, score |-> score]>> ELSE <<>>)
             \o Matches(types, platform_lower, desc_lower, i + 1)

\* matches.sort(key=lambda x: x[1], reverse=True): stable, so that m goes
\* behind the entries that score at least as much
InsertByScore(sorted, m) ==
    LET n == Cardinality({k \in DOMAIN sorted : sorted[k].score >= m.score})
    IN  SubSeq(sorted, 1, n) \o <<m>> \o SubSeq(sorted, n + 1, Len(sorted))

RECURSIVE SortByScore(_, _)
SortByScore(sorted, rest) ==
    IF rest = <<>> THEN sorted
    ELSE SortByScore(InsertByScore(sorted, Head(rest)), Tail(rest))

\* _match_patterns(platform, system_desc), on the table self.patterns
_match_patterns(patterns, platform, system_desc) ==
    LET matches == Matches(patterns.device_types, LowerText(platform),
                           LowerText(system_desc), 1)
    IN  IF matches # <<>>
        THEN SortByScore(<<>>, matches)[1].id
        ELSE patterns.default_device_type

\* a detection that matches the patterns without asking _should_crawl
DetectUngated(text, capabilities, flt) ==
    _match_patterns(DefaultPatterns, text, text)

detect_from_cdp(platform, capabilities, flt) ==
    IF ~_should_crawl(capabilities, flt) THEN None
    ELSE _match_patterns(DefaultPatterns, platform, <<>>)

detect_from_lldp(system_desc, capabilities, flt) ==
    IF ~_should_crawl(capabilities, flt) THEN None
    ELSE _match_patterns(DefaultPatterns, <<>>, system_desc)

----------------------------------------------------------------------------
(* discovery.py: Device, Link, Topology *)

Device(hostname, mgmt_ip, device_type, platform) ==
    [hostname |-> hostname, mgmt_ip |-> mgmt_ip, device_type |-> device_type,
     platform |-> platform, links |-> <<>>]

\* self.devices[hostname] = d
PutDevice(devs, hostname, d) ==
    [h \in (DOMAIN devs) \cup {hostname} |-> IF h = hostname THEN d ELSE devs[h]]

\* mutant: an entry that exists is replaced by the new registration
AddDeviceOverwrites(devs, hostname, mgmt_ip, device_type, platform) ==
    PutDevice(devs, hostname,
              [Device(hostname, mgmt_ip, device_type, platform) EXCEPT
                  !.links = IF hostname \in DOMAIN devs THEN devs[hostname].links
                            ELSE <<>>])

add_device(devs, hostname, mgmt_ip, device_type, platform) ==
    IF hostname \notin DOMAIN devs
    THEN PutDevice(devs, hostname, Device(hostname, mgmt_ip, device_type, platform))
    ELSE devs

\* mutant: the remote endpoint is not created
AddLinkLocalOnly(devs, link) ==
    LET d1 == IF link.local_device \notin DOMAIN devs
              THEN PutDevice(devs, link.local_device,
                             Device(link.local_device, None, None, None))
              ELSE devs
    IN  [d1 EXCEPT ![link.local_device].links = Append(@, link)]

\* mutant: the remote endpoint is created without the address of the Link
AddLinkRemoteBare(devs, link) ==
    LET d1 == IF link.local_device \notin DOMAIN devs
              THEN PutDevice(devs, link.local_device,
                             Device(link.local_device, None, None, None))
              ELSE devs
        d2 == IF link.remote_device \notin DOMAIN d1
              THEN PutDevice(d1, link.remote_device,
                             Device(link.remote_device, None, None, None))
              ELSE d1
    IN  [d2 EXCEPT ![link.local_device].links = Append(@, link)]

add_link(devs, link) ==
    LET d1 == IF link.local_device \notin DOMAIN devs
              THEN PutDevice(devs, link.local_device,
                             Device(link.local_device, None, None, None))
              ELSE devs
        d2 == IF link.remote_device \notin DOMAIN d1
              THEN PutDevice(d1, link.remote_device,
                             Device(link.remote_device, link.remote_ip, None, None))
              ELSE d1
    IN  [d2 EXCEPT ![link.local_device].links = Append(@, link)]

\* Every Link stored anywhere in the topology
AllLinks(devs) ==
    UNION {{devs[h].links[i] : i \in DOMAIN devs[h].links} : h \in DOMAIN devs}

----------------------------------------------------------------------------
(* The network a crawl runs against: what the transport collaborator returns *)

Addrs == {"192.168.1.1", "192.168.1.10", "192.168.1.20"}

HostOf ==
    [a \in Addrs |->
        CASE a = "192.168.1.1" -> "CORE-SW-01"
          [] a = "192.168.1.10" -> "DIST-SW-01"
          [] a = "192.168.1.20" -> "ACCESS-SW-01"]

SeedIp == "192.168.1.1"
SeedDeviceType == "cisco_ios"

\* conn.find_prompt(): the hostname followed by the prompt character
Prompt(ip) == <<HostOf[ip], "#">>

\* what "show cdp neighbors detail", parsed, can report about the device at t
CdpRecord(t, caps) ==
    [remote_device |-> HostOf[t], remote_ip |-> t,
     remote_platform |-> <<"cisco", "WS-C3750X">>, remote_capabilities |-> caps,
     local_intf |-> "Gi1/0/1", remote_intf |-> "Gi1/0/48"]

CrawlCdpPool(ip) ==
    {CdpRecord(t, caps) : t \in Addrs \ {ip},
                          caps \in {<<"Switch", "IGMP">>, <<"Host", "Phone">>}}

\* what "show lldp neighbors detail", parsed, can report about the device at t:
\* a named record with or without management address, or an unnamed one with it
LldpNamed(t) ==
    [remote_platform |-> <<"aabb.cc00.1122">>, remote_device |-> HostOf[t],
     remote_intf |-> "Gi1/0/48", local_intf |-> "Gi1/0/1",
     system_description |-> <<"Cisco", "IOS", "Software">>,
     remote_capabilities |-> <<"B", "R">>]

LldpNamedWithIp(t) ==
    [remote_platform |-> <<"aabb.cc00.1122">>, remote_device |-> HostOf[t],
     remote_ip |-> t, remote_intf |-> "Gi1/0/48", local_intf |-> "Gi1/0/1",
     remote_capabilities |-> <<"B", "R">>]

LldpUnnamed(t) ==
    [remote_platform |-> <<"aabb.cc00.1122">>, remote_ip |-> t,
     remote_intf |-> "Gi1/0/48", local_intf |-> "Gi1/0/1",
     remote_capabilities |-> <<"B", "R">>]

\* a block without chassis id and without description: name, capabilities and
\* management address only
LldpBare(t) ==
    [remote_device |-> HostOf[t], remote_ip |-> t,
     remote_capabilities |-> <<"B", "R">>]

CrawlLldpPool(ip) ==
    {LldpNamed(t) : t \in Addrs \ {ip}}
    \cup {LldpNamedWithIp(t) : t \in Addrs \ {ip}}
    \cup {LldpUnnamed(t) : t \in Addrs \ {ip}}
    \cup {LldpBare(t) : t \in Addrs \ {ip}}

\* the result of one command on a session: parsed records, or an exception
CmdOk(records) == [ok |-> TRUE, out |-> records]
CmdError == [ok |-> FALSE, out |-> <<>>]

\* the results a command can have when at most n records may still be reported
CmdResults(pool, n) == {CmdOk(recs) : recs \in SeqUpTo(pool, n)} \cup {CmdError}

\* the filter sets a caller may ask for (test_recursive.py: routers and switches)
TestFilters ==
    [include_routers |-> TRUE, include_switches |-> TRUE, include_phones |-> FALSE,
     include_servers |-> FALSE, include_aps |-> FALSE, include_other |-> FALSE]

RoutersAndPhones ==
    [include_routers |-> TRUE, include_switches |-> FALSE, include_phones |-> TRUE,
     include_servers |-> FALSE, include_aps |-> FALSE, include_other |-> FALSE]

FilterSets == {TestFilters, RoutersAndPhones}

----------------------------------------------------------------------------
(* discovery.py: TopologyDiscoverer *)

\* prompt.rstrip('#>')
RECURSIVE RStripPrompt(_)
RStripPrompt(prompt) ==
    IF prompt # <<>> /\ prompt[Len(prompt)] \in {"#", ">"}
    THEN RStripPrompt(SubSeq(prompt, 1, Len(prompt) - 1))
    ELSE prompt

_get_hostname(prompt) ==
    LET stripped == RStripPrompt(prompt)
    IN  IF stripped = <<>> THEN "" ELSE stripped[1]

\* mutant: a CDP failure aborts neighbor discovery
DiscoverNeighborsCdpFatal(cdp, lldp) ==
    IF cdp.ok
    THEN merge_neighbor_info(cdp.out, IF lldp.ok THEN lldp.out ELSE <<>>)
    ELSE <<>>

\* each command in its own try/except, then the merge
_discover_neighbors(cdp, lldp) ==
    merge_neighbor_info(IF cdp.ok THEN cdp.out ELSE <<>>,
                        IF lldp.ok THEN lldp.out ELSE <<>>)

\* mutant: the description is matched also when the record has none
DetectNeighborTypeUnguarded(neighbor) ==
    LET platform == Get(neighbor, "remote_platform", <<>>)
        capabilities == Get(neighbor, "remote_capabilities", <<>>)
        system_desc == Get(neighbor, "system_description", <<>>)
        by_cdp == IF platform # <<>>
                  THEN detect_from_cdp(platform, capabilities, NoFilters) ELSE None
        by_lldp == detect_from_lldp(system_desc, capabilities, NoFilters)
    IN  IF by_cdp # None THEN by_cdp ELSE by_lldp

\* the detector is called without filters
_detect_neighbor_type(neighbor) ==
    LET platform == Get(neighbor, "remote_platform", <<>>)
        capabilities == Get(neighbor, "remote_capabilities", <<>>)
        system_desc == Get(neighbor, "system_description", <<>>)
        by_cdp == IF platform # <<>>
                  THEN detect_from_cdp(platform, capabilities, NoFilters) ELSE None
        by_lldp == IF system_desc # <<>>
                   THEN detect_from_lldp(system_desc, capabilities, NoFilters) ELSE None
    IN  IF by_cdp # None THEN by_cdp ELSE by_lldp

\* the Link built for one neighbor record
LinkOf(hostname, neighbor) ==
    [local_device |-> hostname,
     local_intf |-> Get(neighbor, "local_intf", "?"),
     remote_device |-> Get(neighbor, "remote_device", "Unknown"),
     remote_intf |-> Get(neighbor, "remote_intf", "?"),
     remote_ip |-> Get(neighbor, "remote_ip", None),
     protocols |-> Get(neighbor, "protocols", <<>>)]

\* neighbor.get('remote_ip') is truthy
HasRemoteIp(neighbor) == Get(neighbor, "remote_ip", None) \notin {None, ""}

\* mutant: an address is polled again each time it is dequeued
SkipEntryIgnoresVisited(entry, vis, md) == entry.depth > md

\* mutant: depth is not bounded
SkipEntryIgnoresDepth(entry, vis, md) == entry.ip \in vis

\* if ip in self.visited or depth > self.max_depth: continue
SkipEntry(entry, vis, md) == entry.ip \in vis \/ entry.depth > md

\* mutant: a connection error ends the crawl with the error
ConnectErrorRaises(q) == [pc |-> "done", queue |-> q, outcome |-> "raised"]

\* except DiscoveryError: log and continue
OnConnectError(q) == [pc |-> "loop", queue |-> q, outcome |-> "none"]

\* mutant: a queued neighbor gets the depth of the device that reported it
NeighborDepthFlat(depth) == depth

\* depth + 1, the depth of the entry queued for a neighbor
NeighborDepth(depth) == depth + 1

Entry(ip, device_type, depth) == [ip |-> ip, device_type |-> device_type, depth |-> depth]

NoCur == [ip |-> None]

\* mutant: the visited set of the previous run is kept
VisitedKept(old) == old

\* self.visited = set(), at the start of discover
FreshVisited(old) == {}

\* self.topology = Topology(), at the start of discover
FreshTopology(old) == <<>>

\* mutant: the head of the queue is read and left in place
PopLeftPeeks(q) == q

\* queue.popleft(): the queue that remains
PopLeft(q) == Tail(q)

\* mutant: a new entry goes to the front of the queue
QueueAppendLeft(q, entry) == <<entry>> \o q

\* queue.append(entry)
QueueAppend(q, entry) == Append(q, entry)

\* mutant: a neighbor is queued whether or not its address was visited
ShouldQueueIgnoresVisited(neighbor_device_type, neighbor, vis) ==
    neighbor_device_type # None /\ HasRemoteIp(neighbor)

\* if neighbor_device_type and neighbor.get('remote_ip'):
\*     if neighbor['remote_ip'] not in self.visited:
ShouldQueue(neighbor_device_type, neighbor, vis) ==
    /\ neighbor_device_type # None
    /\ HasRemoteIp(neighbor)
    /\ neighbor["remote_ip"] \notin vis

EmptyHist ==
    [attempts |-> [a \in Addrs |-> 0],   \* sessions attempted, per address
     enqCount |-> [a \in Addrs |-> 0],   \* frontier entries appended, per address
     enq |-> {},                         \* <<ip, depth>> of every entry appended
     deq |-> {},                         \* <<ip, depth>> of every entry dequeued
     conn |-> {},                        \* <<ip, depth>> of every entry marked
                                         \* visited and connected to
     failed |-> {},                      \* addresses whose connection failed
     afterFail |-> {},                   \* addresses polled after a failed connection
     polled |-> {},                      \* addresses whose identity was registered
     links |-> {},                       \* every Link given to add_link
     enqCats |-> {},                     \* categories of the neighbors enqueued
     refusedCats |-> {},                 \* categories of the neighbors with an IP
                                         \* that classification refused
     reported |-> 0,                     \* records reported so far
     mergedOf |-> [a \in Addrs |-> <<>>], \* the merged records of the poll of a
     again |-> FALSE]                    \* discover had been called before

MergeIdle ==
    /\ mpc = "off"
    /\ cdp_neighbors = <<>>
    /\ lldp_neighbors = <<>>
    /\ merged_result = <<>>

FnIdle ==
    /\ fpc = "off"
    /\ args = <<>>
    /\ ret = <<>>

\* TopologyDiscoverer(detector, max_depth)
Init ==
    /\ MergeIdle
    /\ FnIdle
    /\ pc = "idle"
    /\ max_depth \in 0..MaxDepthArg
    /\ filters \in FilterSets
    /\ devices = <<>>
    /\ visited = {}
    /\ queue = <<>>
    /\ cur = NoCur
    /\ neighbors = <<>>
    /\ sessions = {}
    /\ outcome = "none"
    /\ hist = EmptyHist

\* discover(seed_ip, seed_device_type, username, password), up to the loop
Discover ==
    /\ pc \in {"idle", "done"}
    /\ pc' = "loop"
    /\ devices' = FreshTopology(devices)
    /\ visited' = FreshVisited(visited)
    /\ queue' = <<Entry(SeedIp, SeedDeviceType, 0)>>
    /\ cur' = NoCur
    /\ neighbors' = <<>>
    /\ sessions' = {}
    /\ outcome' = "none"
    /\ hist' = [EmptyHist EXCEPT !.enq = {<<SeedIp, 0>>},
                                 !.enqCount[SeedIp] = 1,
                                 !.again = (pc = "done")]
    /\ UNCHANGED <<max_depth, filters>>
    /\ UNCHANGED mergeVars
    /\ UNCHANGED fnVars

\* popleft, and continue: already visited or too deep
Skip ==
    /\ pc = "loop"
    /\ queue # <<>>
    /\ LET entry == Head(queue) IN
        /\ SkipEntry(entry, visited, max_depth)
        /\ queue' = PopLeft(queue)
        /\ hist' = [hist EXCEPT !.deq = @ \cup {<<entry.ip, entry.depth>>}]
    /\ UNCHANGED <<pc, max_depth, filters, devices, visited, cur, neighbors,
                   sessions, outcome>>
    /\ UNCHANGED mergeVars
    /\ UNCHANGED fnVars

\* popleft, mark visited, and _connect raises DiscoveryError
ConnectFail ==
    /\ pc = "loop"
    /\ queue # <<>>
    /\ LET entry == Head(queue)
           after == OnConnectError(PopLeft(queue))
       IN
        /\ ~SkipEntry(entry, visited, max_depth)
        /\ visited' = visited \cup {entry.ip}
        /\ pc' = after.pc
        /\ queue' = after.queue
        /\ outcome' = after.outcome
        /\ hist' = [hist EXCEPT !.deq = @ \cup {<<entry.ip, entry.depth>>},
                                !.conn = @ \cup {<<entry.ip, entry.depth>>},
                                !.attempts[entry.ip] = @ + 1,
                                !.failed = @ \cup {entry.ip}]
    /\ UNCHANGED <<max_depth, filters, devices, cur, neighbors, sessions>>
    /\ UNCHANGED mergeVars
    /\ UNCHANGED fnVars

\* popleft, mark visited, connect, and find_prompt raises
IdentityFail ==
    /\ pc = "loop"
    /\ queue # <<>>
    /\ LET entry == Head(queue) IN
        /\ ~SkipEntry(entry, visited, max_depth)
        /\ visited' = visited \cup {entry.ip}
        /\ queue' = PopLeft(queue)
        /\ sessions' = sessions \cup {entry.ip}
        /\ hist' = [hist EXCEPT !.deq = @ \cup {<<entry.ip, entry.depth>>},
                                !.conn = @ \cup {<<entry.ip, entry.depth>>},
                                !.attempts[entry.ip] = @ + 1]
    /\ UNCHANGED <<pc, max_depth, filters, devices, cur, neighbors, outcome>>
    /\ UNCHANGED mergeVars
    /\ UNCHANGED fnVars

\* popleft, mark visited, connect, register the device, run both commands, merge
Poll ==
    /\ pc = "loop"
    /\ queue # <<>>
    /\ LET entry == Head(queue) IN
        /\ ~SkipEntry(entry, visited, max_depth)
        /\ \E cdp \in CmdResults(CrawlCdpPool(entry.ip),
                                   MaxReported - hist.reported) :
           \E lldp \in CmdResults(CrawlLldpPool(entry.ip),
                                    MaxReported - hist.reported - Len(cdp.out)) :
            LET hostname == _get_hostname(Prompt(entry.ip))
                merged == _discover_neighbors(cdp, lldp)
            IN
            /\ visited' = visited \cup {entry.ip}
            /\ queue' = PopLeft(queue)
            /\ sessions' = sessions \cup {entry.ip}
            /\ devices' = add_device(devices, hostname, entry.ip,
                                     entry.device_type, None)
            /\ cur' = [ip |-> entry.ip, device_type |-> entry.device_type,
                       depth |-> entry.depth, hostname |-> hostname,
                       cdp |-> cdp, lldp |-> lldp, merged |-> merged,
                       qlen |-> Len(PopLeft(queue))]
            /\ neighbors' = merged
            /\ pc' = "nbr"
            /\ hist' = [hist EXCEPT !.deq = @ \cup {<<entry.ip, entry.depth>>},
                                    !.conn = @ \cup {<<entry.ip, entry.depth>>},
                                    !.attempts[entry.ip] = @ + 1,
                                    !.polled = @ \cup {entry.ip},
                                    !.afterFail = IF hist.failed # {}
                                                  THEN @ \cup {entry.ip} ELSE @,
                                    !.reported = @ + Len(cdp.out) + Len(lldp.out),
                                    !.mergedOf[entry.ip] = merged]
    /\ UNCHANGED <<max_depth, filters, outcome>>
    /\ UNCHANGED mergeVars
    /\ UNCHANGED fnVars

\* one iteration of "for neighbor in neighbors"
ProcessNeighbor ==
    /\ pc = "nbr"
    /\ neighbors # <<>>
    /\ LET neighbor == Head(neighbors)
           link == LinkOf(cur.hostname, neighbor)
           neighbor_device_type == _detect_neighbor_type(neighbor)
           queued == ShouldQueue(neighbor_device_type, neighbor, visited)
           category == _categorize_device(
                           CapsOf(Get(neighbor, "remote_capabilities", <<>>)))
           \* the log line of a queued neighbor reads neighbor['remote_device']
           key_error == queued /\ "remote_device" \notin DOMAIN neighbor
       IN
        /\ devices' = add_link(devices, link)
        /\ queue' = IF queued
                    THEN QueueAppend(queue, Entry(neighbor["remote_ip"],
                                                  neighbor_device_type,
                                                  NeighborDepth(cur.depth)))
                    ELSE queue
        /\ hist' = [hist EXCEPT
                      !.links = @ \cup {link},
                      !.enq = IF queued
                              THEN @ \cup {<<neighbor["remote_ip"], cur.depth + 1>>}
                              ELSE @,
                      !.enqCount = IF queued
                                   THEN [@ EXCEPT ![neighbor["remote_ip"]] = @ + 1]
                                   ELSE @,
                      !.enqCats = IF queued THEN @ \cup {category} ELSE @,
                      !.refusedCats = IF HasRemoteIp(neighbor)
                                         /\ neighbor_device_type = None
                                      THEN @ \cup {category} ELSE @]
        /\ IF key_error
           THEN \* except Exception: continue, the session is left as it is
                /\ pc' = "loop"
                /\ cur' = NoCur
                /\ neighbors' = <<>>
           ELSE /\ pc' = "nbr"
                /\ cur' = cur
                /\ neighbors' = Tail(neighbors)
    /\ UNCHANGED <<max_depth, filters, visited, sessions, outcome>>
    /\ UNCHANGED mergeVars
    /\ UNCHANGED fnVars

\* conn.disconnect(), after the last neighbor
Disconnect ==
    /\ pc = "nbr"
    /\ neighbors = <<>>
    /\ pc' = "loop"
    /\ cur' = NoCur
    /\ sessions' = sessions \ {cur.ip}
    /\ UNCHANGED <<max_depth, filters, devices, visited, queue, neighbors,
                   outcome, hist>>
    /\ UNCHANGED mergeVars
    /\ UNCHANGED fnVars

\* the queue is empty: return self.topology
Return ==
    /\ pc = "loop"
    /\ queue = <<>>
    /\ pc' = "done"
    /\ outcome' = "returned"
    /\ UNCHANGED <<max_depth, filters, devices, visited, queue, cur, neighbors,
                   sessions, hist>>
    /\ UNCHANGED mergeVars
    /\ UNCHANGED fnVars

Next ==
    \/ Discover
    \/ Skip
    \/ ConnectFail
    \/ IdentityFail
    \/ Poll
    \/ ProcessNeighbor
    \/ Disconnect
    \/ Return

Spec == Init /\ [][Next]_vars

----------------------------------------------------------------------------
(* merge_neighbor_info on its own: the inputs are drawn in MergeInit *)

\* records as parse_cdp_neighbors_detail builds them: any of the identity line,
\* the address line and the interface line may be missing from a block
MergeCdpPool ==
    { Dict({<<"remote_platform", <<"cisco", "WS-C3750X">>>>,
            <<"remote_capabilities", <<"Router", "Switch", "IGMP">>>>}
           \cup name \cup ip \cup intf) :
        name \in {{}, {<<"remote_device", "">>}, {<<"remote_device", "DIST-SW-01">>}},
        ip \in {{}, {<<"remote_ip", "192.168.1.10">>}},
        intf \in {{}, {<<"local_intf", "Gi1/0/1">>, <<"remote_intf", "Gi1/0/48">>}} }

\* records as parse_lldp_neighbors_detail builds them
MergeLldpPool ==
    { Dict({<<"remote_platform", <<"aabb.cc00.1122">>>>,
            <<"local_intf", "Eth1/1">>, <<"remote_intf", "Eth1/48">>}
           \cup name \cup ip \cup desc) :
        name \in {{}, {<<"remote_device", "DIST-SW-01">>}},
        ip \in {{}, {<<"remote_ip", "192.168.1.10">>}, {<<"remote_ip", "192.168.1.20">>}},
        desc \in {{}, {<<"system_description", <<>> >>},
                  {<<"system_description", <<"Cisco", "IOS", "Software">>>>}} }

CrawlIdle ==
    /\ pc = "off"
    /\ max_depth = 0
    /\ filters = TestFilters
    /\ devices = <<>>
    /\ visited = {}
    /\ queue = <<>>
    /\ cur = NoCur
    /\ neighbors = <<>>
    /\ sessions = {}
    /\ outcome = "none"
    /\ hist = EmptyHist

MergeInit ==
    /\ CrawlIdle
    /\ FnIdle
    /\ mpc = "input"
    /\ \E n \in 0..MaxRecs :
        /\ cdp_neighbors \in SeqUpTo(MergeCdpPool, n)
        /\ lldp_neighbors \in SeqUpTo(MergeLldpPool, MaxRecs - n)
    /\ merged_result = <<>>

\* result = merge_neighbor_info(cdp_neighbors, lldp_neighbors)
Merge ==
    /\ mpc = "input"
    /\ mpc' = "merged"
    /\ merged_result' = merge_neighbor_info(cdp_neighbors, lldp_neighbors)
    /\ UNCHANGED <<cdp_neighbors, lldp_neighbors>>
    /\ UNCHANGED crawlVars
    /\ UNCHANGED fnVars

MergeNext == Merge

SpecMerge == MergeInit /\ [][MergeNext]_vars

----------------------------------------------------------------------------
(* Properties of merge_neighbor_info (checked under SpecMerge) *)

\* the record X[i] with its protocol list set to [CDP]
TaggedCdp(rec) ==
    [f \in (DOMAIN rec) \cup {"protocols"} |->
        IF f = "protocols" THEN <<"CDP">> ELSE rec[f]]

ReproducesCdp(X, result) ==
    /\ Len(result) = Len(X)
    /\ \A i \in 1..Len(X) : result[i] = TaggedCdp(X[i])

KeysDistinct(X) ==
    /\ \A i \in 1..Len(X) : MergeKey(X[i]) # ""
    /\ \A i, j \in 1..Len(X) : i # j => MergeKey(X[i]) # MergeKey(X[j])

\* C9 as stated: merge_neighbor_info([], []) = [], and merge_neighbor_info(X, [])
\* reproduces every list X of CDP records, same count and order, each record
\* tagged [CDP].
C9_MergeLawAnyList ==
    (mpc = "merged" /\ lldp_neighbors = <<>>)
        => ReproducesCdp(cdp_neighbors, merged_result)

\* C9 amended: merge_neighbor_info([], []) = [], and merge_neighbor_info(X, [])
\* reproduces X, same count and order, each record tagged exactly [CDP], for
\* every list X of CDP records whose keys are non-empty and pairwise distinct.
C9_MergeLaw ==
    (mpc = "merged" /\ lldp_neighbors = <<>>) =>
        /\ cdp_neighbors = <<>> => merged_result = <<>>
        /\ KeysDistinct(cdp_neighbors) => ReproducesCdp(cdp_neighbors, merged_result)

C9_Witness ==
    /\ mpc = "merged"
    /\ lldp_neighbors = <<>>
    /\ Len(cdp_neighbors) = 2
    /\ KeysDistinct(cdp_neighbors)
    /\ "remote_device" \notin DOMAIN cdp_neighbors[1]
    /\ Len(merged_result) = 2
    /\ merged_result[2].protocols = <<"CDP">>

\* C10: one CDP record and one LLDP record with the same key merge into exactly
\* one record: every field of the CDP record keeps its value, remote_ip,
\* remote_intf and local_intf come from the LLDP record only when the CDP record
\* lacks them, system_description is the LLDP one whenever that is non-empty,
\* and protocols is [CDP, LLDP].
C10_MergeSharedKey ==
    (/\ mpc = "merged"
     /\ Len(cdp_neighbors) = 1
     /\ Len(lldp_neighbors) = 1
     /\ MergeKey(cdp_neighbors[1]) # ""
     /\ MergeKey(cdp_neighbors[1]) = MergeKey(lldp_neighbors[1]))
    => LET a == cdp_neighbors[1]
           b == lldp_neighbors[1]
           b_desc == "system_description" \in DOMAIN b
                        /\ b["system_description"] # <<>>
       IN  /\ Len(merged_result) = 1
           /\ LET r == merged_result[1] IN
               /\ r["protocols"] = <<"CDP", "LLDP">>
               /\ \A f \in (DOMAIN a) \ {"protocols", "system_description"} :
                    f \in DOMAIN r /\ r[f] = a[f]
               /\ \A f \in {"remote_ip", "remote_intf", "local_intf"} :
                    f \notin DOMAIN a =>
                        IF f \in DOMAIN b
                        THEN f \in DOMAIN r /\ r[f] = b[f]
                        ELSE f \notin DOMAIN r
               /\ IF b_desc
                  THEN "system_description" \in DOMAIN r
                       /\ r["system_description"] = b["system_description"]
                  ELSE IF "system_description" \in DOMAIN a
                       THEN "system_description" \in DOMAIN r
                            /\ r["system_description"] = a["system_description"]
                       ELSE "system_description" \notin DOMAIN r
               /\ DOMAIN r \subseteq
                    (DOMAIN a) \cup {"protocols", "system_description",
                                     "remote_ip", "remote_intf", "local_intf"}

C10_Witness ==
    /\ mpc = "merged"
    /\ Len(cdp_neighbors) = 1
    /\ Len(lldp_neighbors) = 1
    /\ MergeKey(cdp_neighbors[1]) = "DIST-SW-01"
    /\ MergeKey(lldp_neighbors[1]) = "DIST-SW-01"
    /\ "remote_ip" \in DOMAIN cdp_neighbors[1]
    /\ "local_intf" \notin DOMAIN cdp_neighbors[1]
    /\ Get(lldp_neighbors[1], "remote_ip", "") = "192.168.1.20"
    /\ Get(lldp_neighbors[1], "system_description", <<>>) # <<>>
    /\ Len(merged_result) = 1
    /\ merged_result[1]["remote_ip"] = "192.168.1.10"
    /\ merged_result[1]["local_intf"] = "Eth1/1"

----------------------------------------------------------------------------
(* Properties of TopologyDiscoverer.discover (checked under Spec) *)

\* C1: in every state of a crawl, and in the Topology it returns, both
\* endpoints of every Link in any Device's links list are keys of
\* Topology.devices.
C1_LinkEndpointsExist ==
    \A l \in AllLinks(devices) :
        l.local_device \in DOMAIN devices /\ l.remote_device \in DOMAIN devices

\* a returned Topology with a Link whose remote endpoint was never polled
C1_Witness ==
    /\ pc = "done"
    /\ outcome = "returned"
    /\ \E l \in AllLinks(devices) :
        /\ l.remote_device \in DOMAIN devices
        /\ l.remote_device \notin {HostOf[a] : a \in hist.polled}
        /\ devices[l.remote_device].device_type = None

\* C2: when the session to the seed address cannot be opened, discover ends
\* with an error and returns no Topology.
C2_SeedFailureSurfaced ==
    (pc = "done" /\ SeedIp \in hist.failed) => outcome = "raised"

\* C3: when the connection to a non-seed entry fails, discover does not raise;
\* it dequeues every remaining entry, returns normally, and the Topology holds
\* every device registered and every Link recorded by the successful polls.
C3_FaultIsolation ==
    (SeedIp \notin hist.failed) =>
        /\ outcome # "raised"
        /\ pc = "done" =>
            /\ outcome = "returned"
            /\ queue = <<>>
            /\ hist.enq \subseteq hist.deq
            /\ \A a \in hist.polled : HostOf[a] \in DOMAIN devices
            /\ \A l \in hist.links :
                /\ l.local_device \in DOMAIN devices
                /\ \E i \in DOMAIN devices[l.local_device].links :
                      devices[l.local_device].links[i] = l

\* a run in which a non-seed connection failed between two successful polls,
\* the later of which recorded a Link
C3_Witness ==
    /\ pc = "done"
    /\ outcome = "returned"
    /\ SeedIp \in hist.polled
    /\ hist.failed # {}
    /\ \E a \in hist.afterFail :
        /\ HostOf[a] \in DOMAIN devices
        /\ devices[HostOf[a]].links # <<>>

\* C4: within one discover call a session is attempted at most once per
\* address, however often the address was appended to the frontier.
C4_AtMostOneSession ==
    \A a \in Addrs : hist.attempts[a] <= 1

C4_Witness ==
    /\ pc = "done"
    /\ \E a \in Addrs : hist.enqCount[a] >= 2 /\ hist.attempts[a] = 1

\* the distinct addresses among a set of <<ip, depth>> entries
AddrsOf(entries) == {e[1] : e \in entries}

\* C5 as stated: when discover returns, the size of the visited set equals the
\* number of distinct addresses dequeued, entries deeper than max_depth included.
C5_VisitedEqualsDequeued ==
    pc = "done" => Cardinality(visited) = Cardinality(AddrsOf(hist.deq))

\* C5 amended: when discover returns, the size of the visited set equals the
\* number of distinct addresses dequeued with a depth of at most max_depth.
C5_VisitedEqualsDequeuedInDepth ==
    pc = "done" =>
        Cardinality(visited)
            = Cardinality(AddrsOf({e \in hist.deq : e[2] <= max_depth}))

\* a finished run that dequeued an address only deeper than max_depth
C5_Witness ==
    /\ pc = "done"
    /\ Cardinality(visited) >= 2
    /\ \E e \in hist.deq : e[2] > max_depth /\ e[1] \notin visited

\* C6: every address marked visited and connected to was enqueued with a depth
\* of at most max_depth; no entry deeper than max_depth is connected to or
\* added to the visited set.
C6_VisitedWithinDepth ==
    /\ \A e \in hist.conn : e[2] <= max_depth /\ e \in hist.enq
    /\ visited = AddrsOf(hist.conn)
    /\ \A a \in Addrs : hist.attempts[a] > 0 => a \in AddrsOf(hist.conn)

\* an entry deeper than max_depth was dequeued and its address left alone
C6_Witness ==
    /\ pc = "done"
    /\ \E e \in hist.deq :
        e[2] > max_depth /\ e[1] \notin visited /\ hist.attempts[e[1]] = 0

\* C7: the crawl honors the caller's filter set: a neighbor whose capability
\* category is disabled is never enqueued, and a neighbor with a management IP
\* is refused by classification only when its category is disabled.
C7_FiltersHonored ==
    /\ \A c \in hist.enqCats : filters[FilterKey(c)]
    /\ \A c \in hist.refusedCats : ~filters[FilterKey(c)]

\* the Links a device has after the first k records of its merged list
LinksOfPrefix(hostname, merged, k) ==
    [i \in 1..k |-> LinkOf(hostname, merged[i])]

\* C8: on a device whose session opened, a failing discovery command
\* contributes an empty neighbor list and nothing else: the records of the
\* other command are merged, the device stays registered, and its Links are
\* those of the merged records processed so far.
C8_ProtocolFailuresIndependent ==
    (pc = "nbr" /\ (~cur.cdp.ok \/ ~cur.lldp.ok)) =>
        /\ (~cur.cdp.ok /\ cur.lldp.ok) =>
              cur.merged = merge_neighbor_info(<<>>, cur.lldp.out)
        /\ (cur.cdp.ok /\ ~cur.lldp.ok) =>
              cur.merged = merge_neighbor_info(cur.cdp.out, <<>>)
        /\ (~cur.cdp.ok /\ ~cur.lldp.ok) => cur.merged = <<>>
        /\ cur.hostname \in DOMAIN devices
        /\ devices[cur.hostname].links
              = LinksOfPrefix(cur.hostname, cur.merged,
                              Len(cur.merged) - Len(neighbors))

\* CDP failed, and the LLDP neighbor was linked and enqueued all the same
C8_Witness ==
    /\ pc = "nbr"
    /\ ~cur.cdp.ok
    /\ cur.lldp.ok
    /\ Len(cur.lldp.out) >= 1
    /\ neighbors = <<>>
    /\ Len(devices[cur.hostname].links) >= 1
    /\ \E i \in DOMAIN queue : queue[i].depth = cur.depth + 1

----------------------------------------------------------------------------
(* DeviceTypeDetector on its own (SpecClassify): one classification of a    *)
(* neighbor from its capability string, platform and description            *)

\* most word tokens in a capability string
MaxCapTokens == 2

\* capability words as CDP and LLDP print them
CapTokens == {"W", "Trans-Bridge", "Router", "R", "Switch", "B", "Phone", "T",
              "Host", "Station", "IGMP"}

FilterKeys == {"include_routers", "include_switches", "include_phones",
               "include_servers", "include_aps", "include_other"}

\* every filter set with the six flags, and no filter set at all
ClassifyFilters == [FilterKeys -> BOOLEAN] \cup {NoFilters}

ClassifyTexts == {<<>>, <<"cisco", "WS-C3750X">>, <<"Cisco", "IOS", "Software">>}

ClassifyInit ==
    /\ MergeIdle
    /\ CrawlIdle
    /\ fpc = "call"
    /\ args \in [capabilities : SeqUpTo(CapTokens, MaxCapTokens),
                  filters : ClassifyFilters,
                  text : ClassifyTexts]
    /\ ret = <<>>

\* detect_from_cdp(text, capabilities, filters) and
\* detect_from_lldp(text, capabilities, filters), with the steps they go through
Classify ==
    /\ fpc = "call"
    /\ fpc' = "returned"
    /\ ret' = [category |-> _categorize_device(CapsOf(args.capabilities)),
                  crawl |-> _should_crawl(args.capabilities, args.filters),
                  cdp |-> detect_from_cdp(args.text, args.capabilities, args.filters),
                  lldp |-> detect_from_lldp(args.text, args.capabilities, args.filters)]
    /\ UNCHANGED args
    /\ UNCHANGED mergeVars
    /\ UNCHANGED crawlVars

ClassifyNext == Classify

SpecClassify == ClassifyInit /\ [][ClassifyNext]_vars

----------------------------------------------------------------------------
(* Properties of the classifier (checked under SpecClassify) *)

\* the categories in the order of their priority, each with its tokens
CategoryOrder ==
    << [category |-> "ap", tokens |-> {"WLAN", "W", "AP", "TRANS-BRIDGE"}],
       [category |-> "router", tokens |-> {"ROUTER", "R"}],
       [category |-> "switch", tokens |-> {"SWITCH", "S", "BRIDGE", "B"}],
       [category |-> "phone", tokens |-> {"PHONE", "P", "T"}],
       [category |-> "server", tokens |-> {"HOST", "H", "STATION"}] >>

FirstCategory(caps) ==
    LET hits == {i \in DOMAIN CategoryOrder : CategoryOrder[i].tokens \cap caps # {}}
    IN  IF hits = {} THEN "other"
        ELSE CategoryOrder[CHOOSE i \in hits : \A j \in hits : i <= j].category

\* C11: a capability token set resolves to the first category, in the order
\* access point (trans-bridge included), router, switch or bridge, phone,
\* host or station, that one of its tokens indicates, and to 'other' when
\* none does; so a neighbor announcing Router and Switch is a router, and
\* filters that admit routers but not switches let it be crawled.
C11_CategoryPriority ==
    fpc = "returned" =>
        /\ ret.category = FirstCategory(CapsOf(args.capabilities))
        /\ ( /\ CapsOf(args.capabilities) = {"ROUTER", "SWITCH"}
             /\ ~IsNoFilters(args.filters)
             /\ args.filters["include_routers"]
             /\ ~args.filters["include_switches"]
             => ret.category = "router" /\ ret.crawl )

C11_Witness ==
    /\ fpc = "returned"
    /\ args.capabilities = <<"Router", "Switch">>
    /\ ~IsNoFilters(args.filters)
    /\ args.filters["include_routers"]
    /\ ~args.filters["include_switches"]
    /\ ret.category = "router"
    /\ ret.crawl

\* C12: with a filter set and a non-empty capability string, both detections
\* return None when the filter of the resolved category is off, whatever the
\* platform or description, and a device-type id when it is on.
C12_FilterGatesDetection ==
    (fpc = "returned" /\ ~IsNoFilters(args.filters) /\ args.capabilities # <<>>) =>
        LET enabled == args.filters[FilterKey(ret.category)]
            ids == {DefaultPatterns.device_types[i].id :
                        i \in DOMAIN DefaultPatterns.device_types}
                   \cup {DefaultPatterns.default_device_type}
        IN  IF enabled
            THEN ret.cdp \in ids /\ ret.lldp \in ids
            ELSE ret.cdp = None /\ ret.lldp = None

C12_Witness ==
    /\ fpc = "returned"
    /\ ~IsNoFilters(args.filters)
    /\ args.capabilities = <<"Host", "Phone">>
    /\ args.text = <<"cisco", "WS-C3750X">>
    /\ ~args.filters["include_phones"]
    /\ args.filters["include_servers"]
    /\ ret.cdp = None
    /\ ret.lldp = None

----------------------------------------------------------------------------
(* discovery.py: render_topology_tree *)

\* hostnames in the order sorted() gives them
SortedNames == <<"ACCESS-SW-01", "CORE-SW-01", "DIST-SW-01", "Unknown">>

NameRank(n) == CHOOSE i \in DOMAIN SortedNames : SortedNames[i] = n

\* sorted(S) for a set of hostnames
Sorted(S) ==
    LET ranks == {NameRank(n) : n \in S}
    IN  [i \in 1..Cardinality(S) |->
            SortedNames[CHOOSE r \in ranks : Cardinality({q \in ranks : q < r}) = i - 1]]

\* the pieces a prefix is made of: three blanks, or a bar and two blanks
Blank == "   "
Bar == "|  "
\* the connectors of a connection line: corner for the last child, tee otherwise
Corner == "+-"
Tee == "|-"

Segment(is_last) == IF is_last THEN Blank ELSE Bar

\* adjacency.setdefault(key, set())
AdjSetDefault(adjacency, key) ==
    IF DictHas(adjacency, key) THEN adjacency ELSE DictPut(adjacency, key, {})

\* adjacency.setdefault(key, set()).add(x)
AdjAdd(adjacency, key, x) ==
    LET a == AdjSetDefault(adjacency, key)
    IN  DictPut(a, key, DictGet(a, key) \cup {x})

\* adjacency.get(node, set())
AdjGet(adjacency, node) ==
    IF DictHas(adjacency, node) THEN DictGet(adjacency, node) ELSE {}

\* mutant: the edge of a link is kept in its own direction only
GraphLinkOneWay(g, link) ==
    [adjacency |-> AdjSetDefault(AdjAdd(g.adjacency, link.local_device,
                                        link.remote_device),
                                 link.remote_device),
     link_details |-> SetField(g.link_details,
                               <<link.local_device, link.remote_device>>,
                               [local_intf |-> link.local_intf,
                                remote_intf |-> link.remote_intf,
                                remote_ip |-> link.remote_ip,
                                protocols |-> link.protocols])]

\* the body of "for link in device.links", on g = [adjacency, link_details]
GraphLink(g, link) ==
    [adjacency |-> AdjAdd(AdjAdd(g.adjacency, link.local_device, link.remote_device),
                          link.remote_device, link.local_device),
     link_details |-> SetField(g.link_details,
                               <<link.local_device, link.remote_device>>,
                               [local_intf |-> link.local_intf,
                                remote_intf |-> link.remote_intf,
                                remote_ip |-> link.remote_ip,
                                protocols |-> link.protocols])]

RECURSIVE GraphLinks(_, _, _)
GraphLinks(g, links, i) ==
    IF i > Len(links) THEN g
    ELSE GraphLinks(GraphLink(g, links[i]), links, i + 1)

\* "for device in topology.devices.values()", over the hostnames in dict order
RECURSIVE GraphDevices(_, _, _, _)
GraphDevices(g, topology, order, i) ==
    IF i > Len(order) THEN g
    ELSE GraphDevices(
            GraphLinks([g EXCEPT !.adjacency = AdjSetDefault(@, order[i])],
                       topology[order[i]].links, 1),
            topology, order, i + 1)

\* mutant: the last neighbor is looked for one place too far
IsLastNeighborOffByOne(i, n) == i = n

\* i == len(neighbors) - 1, for the index i of enumerate()
IsLastNeighbor(i, n) == i = n - 1

\* lines.append(f"{prefix}{device_label}")
DeviceLine(topology, node, prefix) ==
    [kind |-> "device", prefix |-> prefix, node |-> node,
     mgmt_ip |-> IF node \in DOMAIN topology /\ topology[node].mgmt_ip \notin {None, ""}
                 THEN topology[node].mgmt_ip ELSE ""]

\* connection_line, for the neighbor at place i (from 0) of the sorted neighbors
ConnectionLine(link_details, node, neighbor, prefix, is_last, is_last_neighbor) ==
    LET link_info == IF <<node, neighbor>> \in DOMAIN link_details
                     THEN link_details[<<node, neighbor>>] ELSE <<>>
        remote_ip == Get(link_info, "remote_ip", "")
    IN  [kind |-> "link",
         prefix |-> Append(prefix, Segment(is_last)),
         connector |-> IF is_last_neighbor THEN Corner ELSE Tee,
         protocols |-> Get(link_info, "protocols", <<>>),
         local_intf |-> Get(link_info, "local_intf", "?"),
         remote_intf |-> Get(link_info, "remote_intf", "?"),
         remote_ip |-> IF remote_ip \in {None, ""} THEN "" ELSE remote_ip]

\* build_tree(node, prefix, is_last) on st = [lines, visited], and its loop
\* over the neighbors that were unvisited when the node was entered
RECURSIVE build_tree(_, _, _, _, _, _)
RECURSIVE BuildNeighbors(_, _, _, _, _, _, _, _)
build_tree(topology, g, node, prefix, is_last, st) ==
    LET visited1 == st.visited \cup {node}
        st1 == [lines |-> Append(st.lines, DeviceLine(topology, node, prefix)),
                visited |-> visited1]
        nbrs == Sorted(AdjGet(g.adjacency, node) \ visited1)
    IN  BuildNeighbors(topology, g, node, prefix, is_last, nbrs, 1, st1)

BuildNeighbors(topology, g, node, prefix, is_last, nbrs, k, st) ==
    IF k > Len(nbrs) THEN st
    ELSE LET is_last_neighbor == IsLastNeighbor(k - 1, Len(nbrs))
             st2 == [st EXCEPT !.lines =
                        Append(@, ConnectionLine(g.link_details, node, nbrs[k],
                                                 prefix, is_last, is_last_neighbor))]
             new_prefix == prefix \o <<Segment(is_last), Segment(is_last_neighbor)>>
         IN  BuildNeighbors(topology, g, node, prefix, is_last, nbrs, k + 1,
                            build_tree(topology, g, nbrs[k], new_prefix,
                                       is_last_neighbor, st2))

NoDevicesLine == [kind |-> "message", prefix |-> <<>>, text |-> "No devices discovered"]

\* render_topology_tree(topology, root): the lines of the returned text;
\* order lists the keys of topology.devices in dict order
render_topology_tree(topology, order, root) ==
    IF order = <<>> THEN <<NoDevicesLine>>
    ELSE LET g == GraphDevices([adjacency |-> <<>>, link_details |-> <<>>],
                               topology, order, 1)
             root1 == IF root = None THEN g.adjacency[1].k ELSE root
         IN  build_tree(topology, g, root1, <<>>, TRUE,
                        [lines |-> <<>>, visited |-> {}]).lines

----------------------------------------------------------------------------
(* render_topology_tree on its own (SpecRender) *)

\* most links in a rendered Topology
MaxLinks == 3

Hostnames == {HostOf[a] : a \in Addrs}

AddrOfHost(h) == CHOOSE a \in Addrs : HostOf[a] = h

\* the Links a poll of one device stores about another: seen by CDP and LLDP
\* with the address, or by LLDP alone without it
RenderLinks ==
    {[local_device |-> p[1], local_intf |-> "Gi1/0/1",
      remote_device |-> p[2], remote_intf |-> "Gi1/0/48",
      remote_ip |-> IF p[3] THEN AddrOfHost(p[2]) ELSE None,
      protocols |-> IF p[3] THEN <<"CDP", "LLDP">> ELSE <<"LLDP">>] :
        p \in {q \in Hostnames \X Hostnames \X BOOLEAN : q[1] # q[2]}}
    \cup
    \* the Link of an LLDP record without system name: the remote device of
    \* the Link is "Unknown"
    {[local_device |-> p[1], local_intf |-> "Gi1/0/1",
      remote_device |-> "Unknown", remote_intf |-> "Gi1/0/48",
      remote_ip |-> p[2], protocols |-> <<"LLDP">>] :
        p \in {q \in Hostnames \X Addrs : HostOf[q[2]] # q[1]}}

\* the Topology after add_device for the local device and add_link, per link
RECURSIVE TopologyOf(_, _, _)
TopologyOf(devs, links, i) ==
    IF i > Len(links) THEN devs
    ELSE TopologyOf(
            add_link(add_device(devs, links[i].local_device,
                                AddrOfHost(links[i].local_device), SeedDeviceType, None),
                     links[i]),
            links, i + 1)

\* the keys of the devices of that Topology in the order they were inserted
RECURSIVE OrderOf(_, _, _)
OrderOf(order, links, i) ==
    IF i > Len(links) THEN order
    ELSE LET has(o, n) == \E j \in DOMAIN o : o[j] = n
             o1 == IF has(order, links[i].local_device) THEN order
                   ELSE Append(order, links[i].local_device)
             o2 == IF has(o1, links[i].remote_device) THEN o1
                   ELSE Append(o1, links[i].remote_device)
         IN  OrderOf(o2, links, i + 1)

RenderInit ==
    /\ MergeIdle
    /\ CrawlIdle
    /\ fpc = "call"
    /\ \E links \in SeqUpTo(RenderLinks, MaxLinks), root \in Hostnames \cup {None} :
        args = [links |-> links,
                topology |-> TopologyOf(<<>>, links, 1),
                order |-> OrderOf(<<>>, links, 1),
                root |-> root]
    /\ ret = <<>>

\* render_topology_tree(topology, root)
Render ==
    /\ fpc = "call"
    /\ fpc' = "returned"
    /\ ret' = render_topology_tree(args.topology, args.order, args.root)
    /\ UNCHANGED args
    /\ UNCHANGED mergeVars
    /\ UNCHANGED crawlVars

RenderNext == Render

SpecRender == RenderInit /\ [][RenderNext]_vars

----------------------------------------------------------------------------
(* Properties of render_topology_tree (checked under SpecRender) *)

\* the undirected edges of the rendered Topology
EdgesOf(links) == {{links[i].local_device, links[i].remote_device} : i \in DOMAIN links}

\* the lines below line i: those up to the next line that is not deeper
Below(lines, i) ==
    {j \in (i + 1)..Len(lines) :
        \A k \in (i + 1)..j : Len(lines[k].prefix) > Len(lines[i].prefix)}

\* the connection lines that lead from the device of line i to its children
ChildLinks(lines, i) ==
    {j \in Below(lines, i) :
        lines[j].kind = "link" /\ Len(lines[j].prefix) = Len(lines[i].prefix) + 1}

\* C13: a chain A - B - C rendered from A gives A, then B as the only child
\* of A, then C as the only child of B, both connection lines with the
\* last-child connector; and in every rendering a device with one child line
\* has it drawn with the last-child connector.
C13_OnlyChildIsLast ==
    fpc = "returned" =>
        /\ \A a \in Hostnames, b \in Hostnames, c \in Hostnames :
            ( /\ EdgesOf(args.links) = {{a, b}, {b, c}}
              /\ Cardinality({a, b, c}) = 3
              /\ args.root = a )
            => /\ Len(ret) = 5
               /\ [i \in 1..5 |-> ret[i].kind]
                    = <<"device", "link", "device", "link", "device">>
               /\ <<ret[1].node, ret[3].node, ret[5].node>> = <<a, b, c>>
               /\ ret[2].connector = Corner /\ ret[4].connector = Corner
               /\ [i \in 1..5 |-> ret[i].prefix]
                    = << <<>>, <<Blank>>, <<Blank, Blank>>, <<Blank, Blank, Blank>>,
                         <<Blank, Blank, Blank, Blank>> >>
        /\ \A i \in DOMAIN ret :
             (ret[i].kind = "device" /\ Cardinality(ChildLinks(ret, i)) = 1)
             => \A j \in ChildLinks(ret, i) : ret[j].connector = Corner

C13_Witness ==
    /\ fpc = "returned"
    /\ EdgesOf(args.links) = {{"CORE-SW-01", "DIST-SW-01"}, {"DIST-SW-01", "ACCESS-SW-01"}}
    /\ args.root = "CORE-SW-01"
    /\ Len(ret) = 5
    /\ ret[5].kind = "device"
    /\ ret[5].node = "ACCESS-SW-01"
    /\ ret[4].connector = Corner

----------------------------------------------------------------------------
(* parsers.py: parse_cdp_neighbors_detail                                   *)
(* A line of command output is a sequence of tokens: words, the blank " ",  *)
(* and the punctuation marks the parser splits on.                          *)

Sp == " "

\* str.startswith
StartsWith(text, pattern) ==
    /\ Len(pattern) <= Len(text)
    /\ \A j \in 1..Len(pattern) : text[j] = pattern[j]

\* str.strip()
RECURSIVE Strip(_)
Strip(text) ==
    IF text = <<>> THEN text
    ELSE IF Head(text) = Sp THEN Strip(Tail(text))
    ELSE IF text[Len(text)] = Sp THEN Strip(SubSeq(text, 1, Len(text) - 1))
    ELSE text

\* where sep first occurs in text, 0 when it does not
FindFirst(text, sep) ==
    LET at == {i \in 1..(Len(text) - Len(sep) + 1) :
                  \A j \in 1..Len(sep) : text[i + j - 1] = sep[j]}
    IN  IF at = {} THEN 0 ELSE CHOOSE i \in at : \A k \in at : i <= k

\* str.split(sep)
RECURSIVE Split(_, _)
Split(text, sep) ==
    LET i == FindFirst(text, sep)
    IN  IF i = 0 THEN <<text>>
        ELSE <<SubSeq(text, 1, i - 1)>>
             \o Split(SubSeq(text, i + Len(sep), Len(text)), sep)

DeviceIdLabel == <<"Device", Sp, "ID", ":">>
IpAddressLabel == <<"IP", Sp, "address", ":">>
Ipv4AddressLabel == <<"IPv4", Sp, "Address", ":">>
PlatformLabel == <<"Platform", ":">>
CapabilitiesLabel == <<"Capabilities", ":">>
InterfaceLabel == <<"Interface", ":">>
PortIdLabel == <<"Port", Sp, "ID">>

\* mutant: a finished record is never added to the list
FlushNothing(neighbors_list, current) == neighbors_list

\* if current: neighbors.append(current)
FlushCurrent(neighbors_list, current) ==
    IF DOMAIN current # {} THEN Append(neighbors_list, current) ELSE neighbors_list

\* "for part in parts: if 'Capabilities:' in part: ..." from part i on
RECURSIVE CdpCapabilities(_, _, _)
CdpCapabilities(current, parts, i) ==
    IF i > Len(parts) THEN current
    ELSE CdpCapabilities(
            IF Contains(parts[i], CapabilitiesLabel)
            THEN SetField(current, "remote_capabilities",
                          Strip(Split(parts[i], CapabilitiesLabel)[2]))
            ELSE current,
            parts, i + 1)

\* the body of "for line in output.splitlines()", on st = [neighbors, current]
CdpLine(st, line) ==
    LET line_stripped == Strip(line) IN
    IF StartsWith(line_stripped, DeviceIdLabel)
    THEN LET device_id == Strip(Split(line_stripped, DeviceIdLabel)[2])
         IN  [neighbors |-> FlushCurrent(st.neighbors, st.current),
              current |-> SetField(IF DOMAIN st.current # {} THEN <<>> ELSE st.current,
                                   "remote_device", Split(device_id, <<".">>)[1])]
    ELSE IF Contains(line_stripped, IpAddressLabel)
            \/ Contains(line_stripped, Ipv4AddressLabel)
    THEN LET ip == IF Contains(line_stripped, Ipv4AddressLabel)
                   THEN Strip(Split(line_stripped, Ipv4AddressLabel)[2])
                   ELSE Strip(Split(line_stripped, IpAddressLabel)[2])
         IN  IF ip # <<>> /\ ~StartsWith(ip, <<"(">>)
             THEN [st EXCEPT !.current = SetField(@, "remote_ip", ip)]
             ELSE st
    ELSE IF StartsWith(line_stripped, PlatformLabel)
    THEN LET parts == Split(line_stripped, <<",">>)
             platform == Strip(Split(parts[1], PlatformLabel)[2])
         IN  [st EXCEPT !.current =
                CdpCapabilities(SetField(@, "remote_platform", platform), parts, 1)]
    ELSE IF StartsWith(line_stripped, InterfaceLabel)
    THEN LET parts == Split(line_stripped, <<",">>)
             local_intf == Strip(Split(parts[1], InterfaceLabel)[2])
             c1 == SetField(st.current, "local_intf", local_intf)
         IN  IF Len(parts) > 1 /\ Contains(parts[2], PortIdLabel)
             THEN LET fields == Split(parts[2], <<":">>)
                  IN  [st EXCEPT !.current =
                          SetField(c1, "remote_intf", Strip(fields[Len(fields)]))]
             ELSE [st EXCEPT !.current = c1]
    ELSE st

RECURSIVE CdpLines(_, _, _)
CdpLines(st, lines, i) ==
    IF i > Len(lines) THEN st
    ELSE CdpLines(CdpLine(st, lines[i]), lines, i + 1)

\* parse_cdp_neighbors_detail(output), output given as its lines
parse_cdp_neighbors_detail(output) ==
    LET st == CdpLines([neighbors |-> <<>>, current |-> <<>>], output, 1)
    IN  FlushCurrent(st.neighbors, st.current)

----------------------------------------------------------------------------
(* parse_cdp_neighbors_detail on its own (SpecParse) *)

\* most lines in a command output
MaxLines == 5

\* "Device ID: <name>"
CdpDeviceIdLine(name) == DeviceIdLabel \o <<Sp>> \o name
\* "  IP address: <ip>"
CdpIpLine(ip) == <<Sp, Sp>> \o IpAddressLabel \o <<Sp>> \o ip
\* "Platform: <platform>,  Capabilities: <capabilities> "
CdpPlatformLine(platform, capabilities) ==
    PlatformLabel \o <<Sp>> \o platform \o <<",", Sp, Sp>>
        \o CapabilitiesLabel \o <<Sp>> \o capabilities \o <<Sp>>
\* "Interface: <local>,  Port ID (outgoing port): <remote>"
CdpInterfaceLine(local_intf, remote_intf) ==
    InterfaceLabel \o <<Sp>> \o local_intf \o <<",", Sp, Sp>>
        \o PortIdLabel \o <<Sp, "(", "outgoing", Sp, "port", ")", ":", Sp>> \o remote_intf
\* "Entry address(es): "
CdpEntryAddressLine == <<"Entry", Sp, "address(es)", ":", Sp>>

CdpDeviceIds == {<<"DIST-SW-01">>, <<"DIST-SW-02", ".", "example", ".", "com">>}
CdpIps == {<<"192.168.1.10">>, <<"(", "not", Sp, "available", ")">>}
CdpPlatforms == {<<"cisco", Sp, "WS-C3750X-48">>}
CdpCapabilityTexts == {<<"Router", Sp, "Switch", Sp, "IGMP">>}
CdpInterfaces == {<<"GigabitEthernet1/0/1">>}
CdpPortIds == {<<"GigabitEthernet1/0/48">>}

\* the lines of the outputs in MOCK_DEVICES, and their variants
CdpLinePool ==
    {CdpDeviceIdLine(n) : n \in CdpDeviceIds}
    \cup {CdpIpLine(a) : a \in CdpIps}
    \cup {CdpPlatformLine(pl, c) : pl \in CdpPlatforms, c \in CdpCapabilityTexts}
    \cup {CdpInterfaceLine(l, r) : l \in CdpInterfaces, r \in CdpPortIds}
    \cup {CdpEntryAddressLine,
          PlatformLabel \o <<Sp, "cisco", Sp, "WS-C3750X-48">>,
          InterfaceLabel \o <<Sp, "GigabitEthernet1/0/1">>}

ParseInit ==
    /\ MergeIdle
    /\ CrawlIdle
    /\ fpc = "call"
    /\ \E output \in SeqUpTo(CdpLinePool, MaxLines) : args = [output |-> output]
    /\ ret = <<>>

\* parse_cdp_neighbors_detail(output)
ParseCdp ==
    /\ fpc = "call"
    /\ fpc' = "returned"
    /\ ret' = parse_cdp_neighbors_detail(args.output)
    /\ UNCHANGED args
    /\ UNCHANGED mergeVars
    /\ UNCHANGED crawlVars

ParseNext == ParseCdp

SpecParse == ParseInit /\ [][ParseNext]_vars

----------------------------------------------------------------------------
(* Properties of the parsers (checked under SpecParse) *)

\* the block of the four lines, with or without the line that announces the
\* addresses between the first two
CdpBlocks(name, ip, platform, capabilities, local_intf, remote_intf) ==
    { <<CdpDeviceIdLine(name), CdpIpLine(ip),
        CdpPlatformLine(platform, capabilities),
        CdpInterfaceLine(local_intf, remote_intf)>>,
      <<CdpDeviceIdLine(name), CdpEntryAddressLine, CdpIpLine(ip),
        CdpPlatformLine(platform, capabilities),
        CdpInterfaceLine(local_intf, remote_intf)>> }

\* C14: a CDP block of an identity line, an address line, a platform line with
\* its capabilities and an interface line with its port id parses to exactly
\* one record that holds the six values of those lines (the identity up to
\* its first dot).
C14_CdpBlockParsed ==
    fpc = "returned" =>
        \A name \in CdpDeviceIds, ip \in CdpIps \ {<<"(", "not", Sp, "available", ")">>},
           platform \in CdpPlatforms, capabilities \in CdpCapabilityTexts,
           local_intf \in CdpInterfaces, remote_intf \in CdpPortIds :
            args.output \in CdpBlocks(name, ip, platform, capabilities,
                                      local_intf, remote_intf)
            => ret = << [remote_device |-> <<name[1]>>,
                         remote_ip |-> ip,
                         remote_platform |-> platform,
                         remote_capabilities |-> capabilities,
                         local_intf |-> local_intf,
                         remote_intf |-> remote_intf] >>

C14_Witness ==
    /\ fpc = "returned"
    /\ args.output = <<CdpDeviceIdLine(<<"DIST-SW-01">>),
                       CdpEntryAddressLine,
                       CdpIpLine(<<"192.168.1.10">>),
                       CdpPlatformLine(<<"cisco", Sp, "WS-C3750X-48">>,
                                       <<"Router", Sp, "Switch", Sp, "IGMP">>),
                       CdpInterfaceLine(<<"GigabitEthernet1/0/1">>,
                                        <<"GigabitEthernet1/0/48">>)>>
    /\ Len(ret) = 1
    /\ ret[1].remote_device = <<"DIST-SW-01">>
    /\ ret[1].remote_intf = <<"GigabitEthernet1/0/48">>

----------------------------------------------------------------------------
(* The crawl under fairness (SpecFair): the loop of discover is one thread  *)
(* that keeps running, and every call it makes on a session returns or      *)
(* fails within the timeouts of the transport.                              *)

\* The steps of the loop that the fairness condition names. A successful
\* poll is a step of the loop as well, but nothing has to be assumed about
\* it: wherever Poll is enabled, ConnectFail and IdentityFail are enabled
\* too, so a loop that keeps running takes one of the three.
LoopStep ==
    \/ Skip
    \/ ConnectFail
    \/ IdentityFail
    \/ ProcessNeighbor
    \/ Disconnect
    \/ Return

SpecFair == Init /\ [][Next]_vars /\ WF_vars(LoopStep)

----------------------------------------------------------------------------
(* Properties of the crawl, continued (checked under Spec and SpecFair) *)

\* C15: at the start of every discover call, a first one or one that follows
\* an earlier call on the same TopologyDiscoverer, the Topology and the
\* visited set are empty and the frontier holds the seed alone.
C15_FreshStart ==
    (pc = "loop" /\ hist.deq = {}) =>
        /\ devices = <<>>
        /\ visited = {}
        /\ queue = <<Entry(SeedIp, SeedDeviceType, 0)>>

C15_Witness ==
    /\ hist.again
    /\ pc = "loop"
    /\ hist.deq = {}
    /\ visited = {}

\* C16: once started, the loop of discover empties the frontier and returns.
C16_Terminates ==
    (pc = "loop") ~> (pc = "done" /\ queue = <<>> /\ outcome = "returned")

C16_Witness ==
    /\ pc = "done"
    /\ outcome = "returned"
    /\ \E a \in hist.polled \ {SeedIp} :
        \E i \in DOMAIN hist.mergedOf[a] :
            Get(hist.mergedOf[a][i], "remote_ip", None) = SeedIp

\* the entries appended to the frontier since the device being processed was
\* dequeued, and the merged records processed so far
AppendedByCur == SubSeq(queue, cur.qlen + 1, Len(queue))
ProcessedByCur == SubSeq(cur.merged, 1, Len(cur.merged) - Len(neighbors))

\* C17: polling is in level order: no entry waiting in the frontier, and no
\* device being processed, has a smaller depth than an entry polled before;
\* and the entries one device appends are in the order of its merged records.
C17_LevelOrder ==
    /\ \A e \in hist.conn : \A i \in DOMAIN queue : e[2] <= queue[i].depth
    /\ \A i \in DOMAIN queue : \A j \in DOMAIN queue :
          i <= j => queue[i].depth <= queue[j].depth
    /\ pc = "nbr" =>
        /\ \A e \in hist.conn : e[2] <= cur.depth
        /\ \E f \in [DOMAIN AppendedByCur -> DOMAIN ProcessedByCur] :
            /\ \A i \in DOMAIN f : \A j \in DOMAIN f : i < j => f[i] < f[j]
            /\ \A i \in DOMAIN f :
                /\ "remote_ip" \in DOMAIN ProcessedByCur[f[i]]
                /\ AppendedByCur[i].ip = ProcessedByCur[f[i]]["remote_ip"]
                /\ AppendedByCur[i].depth = cur.depth + 1

C17_Witness ==
    /\ pc = "nbr"
    /\ cur.depth = 1
    /\ cur.qlen >= 1
    /\ Len(queue) > cur.qlen
    /\ neighbors = <<>>

\* C18: processing one merged record of a device polled at depth d appends
\* the entry (remote IP, resolved type, d + 1) to the frontier when the record
\* was classified, has a remote IP, and that IP is not in the visited set;
\* otherwise it leaves the frontier as it is.
C18_EnqueueIff ==
    [][ (pc = "nbr" /\ neighbors # <<>>) =>
            LET neighbor == Head(neighbors)
                resolved == _detect_neighbor_type(neighbor)
                ip == Get(neighbor, "remote_ip", None)
            IN  IF resolved # None /\ ip \notin {None, ""} /\ ip \notin visited
                THEN queue' = Append(queue, Entry(ip, resolved, cur.depth + 1))
                ELSE queue' = queue ]_vars

C18_Witness ==
    /\ pc = "nbr"
    /\ neighbors = <<>>
    /\ Len(queue) = cur.qlen + 1
    /\ \E i \in DOMAIN cur.merged :
        /\ HasRemoteIp(cur.merged[i])
        /\ cur.merged[i]["remote_ip"] \in visited
        /\ _detect_neighbor_type(cur.merged[i]) # None
    /\ \E i \in DOMAIN cur.merged :
        /\ HasRemoteIp(cur.merged[i])
        /\ cur.merged[i]["remote_ip"] \notin visited
        /\ _detect_neighbor_type(cur.merged[i]) # None

\* C19: once the processing of a polled device is over, the Topology holds,
\* from that device, one Link per merged record of its poll, in merged order.
C19_EveryRecordLinked ==
    \A a \in hist.polled :
        ~(pc = "nbr" /\ cur.ip = a) =>
            devices[HostOf[a]].links
                = [i \in DOMAIN hist.mergedOf[a] |->
                      LinkOf(HostOf[a], hist.mergedOf[a][i])]

\* C20: at most one session is open at any time, and none is open when the
\* loop is about to dequeue the next entry.
C20_SessionsClosed ==
    /\ Cardinality(sessions) <= 1
    /\ pc \in {"loop", "done"} => sessions = {}

----------------------------------------------------------------------------
(* Properties of the Device entries of a crawl (checked under Spec) *)

\* C21: while and after a device is polled, its Device entry holds the
\* address that was polled and the device-type hint of the frontier entry.
C21_PolledDeviceRegistered ==
    pc = "nbr" =>
        /\ devices[cur.hostname].mgmt_ip = cur.ip
        /\ devices[cur.hostname].device_type = cur.device_type

PolledHosts == {HostOf[a] : a \in hist.polled}

\* the Links of the Topology that point to the device h
LinksTo(h) == {l \in AllLinks(devices) : l.remote_device = h}

DeviceFieldsKept ==
    pc \in {"loop", "nbr"} =>
        \A h \in DOMAIN devices :
            /\ h \in DOMAIN devices'
            /\ devices'[h].mgmt_ip = devices[h].mgmt_ip
            /\ devices'[h].device_type = devices[h].device_type
            /\ devices'[h].platform = devices[h].platform
            /\ \/ devices'[h].links = devices[h].links
               \/ /\ pc = "nbr"
                  /\ h = cur.hostname
                  /\ Len(devices'[h].links) = Len(devices[h].links) + 1
                  /\ SubSeq(devices'[h].links, 1, Len(devices[h].links))
                        = devices[h].links

\* C23: within a run no step changes mgmt_ip, device_type or platform of a
\* Device entry that exists, and the only change to an existing entry is a
\* Link appended to the links of the device being processed.
C23_DeviceFieldsFrozen == [][DeviceFieldsKept]_vars

\* a device that a Link had created is polled (add_device on an existing
\* entry) and reports a neighbor that exists (add_link on existing entries)
C23_Witness ==
    /\ pc = "nbr"
    /\ cur.depth >= 1
    /\ devices[cur.hostname].device_type = None
    /\ \E i \in DOMAIN devices[cur.hostname].links :
          devices[cur.hostname].links[i].remote_device = HostOf[SeedIp]

----------------------------------------------------------------------------
(* Properties of merge_neighbor_info, continued (checked under SpecMerge) *)

\* the key of a record: its device name if it has one, else its address,
\* else nothing
KeyOfRecord(rec) ==
    IF "remote_device" \in DOMAIN rec /\ rec["remote_device"] # ""
    THEN rec["remote_device"]
    ELSE IF "remote_ip" \in DOMAIN rec THEN rec["remote_ip"] ELSE ""

KeysOfRecords(list) == [i \in DOMAIN list |-> KeyOfRecord(list[i])]

KeySet(list) == {KeyOfRecord(list[i]) : i \in DOMAIN list} \ {""}

\* the keys of a list in the order of their first occurrence, without those
\* of the set skip
RECURSIVE FirstOccurrences(_, _)
FirstOccurrences(keys, skip) ==
    IF keys = <<>> THEN <<>>
    ELSE IF Head(keys) \in skip THEN FirstOccurrences(Tail(keys), skip)
    ELSE <<Head(keys)>> \o FirstOccurrences(Tail(keys), skip \cup {Head(keys)})

\* C24: the result lists the keys of the CDP input first, in the order of
\* their first occurrence, then the keys that occur in the LLDP input only,
\* in the order of their first occurrence.
C24_MergeOrder ==
    mpc = "merged" =>
        KeysOfRecords(merged_result)
            = FirstOccurrences(KeysOfRecords(cdp_neighbors), {""})
              \o FirstOccurrences(KeysOfRecords(lldp_neighbors),
                                  {""} \cup KeySet(cdp_neighbors))

C24_Witness ==
    /\ mpc = "merged"
    /\ Len(cdp_neighbors) = 1
    /\ Len(lldp_neighbors) = 2
    /\ KeyOfRecord(lldp_neighbors[2]) = KeyOfRecord(cdp_neighbors[1])
    /\ KeyOfRecord(lldp_neighbors[1]) \notin {"", KeyOfRecord(cdp_neighbors[1])}
    /\ Len(merged_result) = 2
    /\ merged_result[1].protocols = <<"CDP", "LLDP">>
    /\ merged_result[2].protocols = <<"LLDP">>

\* C25: records are keyed by device name, else by address; records with
\* neither are dropped, and the result holds exactly one record for every key
\* of the two inputs.
C25_OneRecordPerKey ==
    mpc = "merged" =>
        /\ KeySet(merged_result) = KeySet(cdp_neighbors) \cup KeySet(lldp_neighbors)
        /\ \A i \in DOMAIN merged_result : KeyOfRecord(merged_result[i]) # ""
        /\ \A i \in DOMAIN merged_result : \A j \in DOMAIN merged_result :
              i # j => KeyOfRecord(merged_result[i]) # KeyOfRecord(merged_result[j])

\* a record without a key is dropped, and a name shared by a CDP record with
\* an address and an LLDP record without one gives a single record
C25_Witness ==
    /\ mpc = "merged"
    /\ Len(cdp_neighbors) = 2
    /\ Len(lldp_neighbors) = 1
    /\ KeyOfRecord(cdp_neighbors[1]) = ""
    /\ "remote_ip" \in DOMAIN cdp_neighbors[2]
    /\ "remote_ip" \notin DOMAIN lldp_neighbors[1]
    /\ KeyOfRecord(cdp_neighbors[2]) = KeyOfRecord(lldp_neighbors[1])
    /\ Len(merged_result) = 1

\* C26: the protocols of every merged record are among CDP and LLDP, each
\* at most once.
C26_ProtocolsDuplicateFree ==
    mpc = "merged" =>
        \A i \in DOMAIN merged_result :
            LET protocols == merged_result[i].protocols IN
            /\ \A k \in DOMAIN protocols : protocols[k] \in {"CDP", "LLDP"}
            /\ \A k \in DOMAIN protocols : \A m \in DOMAIN protocols :
                  k # m => protocols[k] # protocols[m]

----------------------------------------------------------------------------
(* _match_patterns on its own (SpecMatch): one match of a platform and a    *)
(* description against a pattern table                                      *)

\* most profiles in a pattern table
MaxProfiles == 2

\* the ids of the profiles of a table, in declared order
ProfileIds == <<"cisco_nxos", "arista_eos", "juniper_junos", "linux">>

\* what a profile may declare
ProfileConfigs ==
    [platforms : {<<>>, << <<"cisco">> >>, << <<"nexus">> >>,
                  << <<"cisco">>, <<"nexus">> >>},
     system_descriptions : {<<>>, << <<"IOS">> >>, << <<"NX-OS">> >>},
     priority : {0, 10, 20}]

\* the pattern tables of up to n profiles
PatternTables(n) ==
    {[device_types |->
          [i \in DOMAIN configs |->
              [id |-> ProfileIds[i],
               platforms |-> configs[i].platforms,
               system_descriptions |-> configs[i].system_descriptions,
               priority |-> configs[i].priority]],
      default_device_type |-> "cisco_ios"] :
        configs \in SeqUpTo(ProfileConfigs, n)}

MatchInit ==
    /\ MergeIdle
    /\ CrawlIdle
    /\ fpc = "call"
    /\ args \in [patterns : PatternTables(MaxProfiles),
                 platform : {<<>>, <<"cisco", "Nexus">>},
                 system_desc : {<<>>, <<"Cisco", "IOS", "Software">>,
                                <<"Cisco", "NX-OS">>}]
    /\ ret = <<>>

\* self._match_patterns(platform, system_desc)
Match ==
    /\ fpc = "call"
    /\ fpc' = "returned"
    /\ ret' = [device_type |-> _match_patterns(args.patterns, args.platform,
                                              args.system_desc)]
    /\ UNCHANGED args
    /\ UNCHANGED mergeVars
    /\ UNCHANGED crawlVars

MatchNext == Match

SpecMatch == MatchInit /\ [][MatchNext]_vars

----------------------------------------------------------------------------
(* Properties of _match_patterns (checked under SpecMatch) *)

\* some pattern of the list occurs in the text, case ignored
SomePatternIn(pattern_list, text) ==
    \E i \in DOMAIN pattern_list :
        Contains(LowerText(text), LowerText(pattern_list[i]))

\* twice the score of a profile: its priority for a platform match plus half
\* its priority for a description match
DoubledScore(config) ==
    (IF SomePatternIn(config.platforms, args.platform) THEN 2 * config.priority ELSE 0)
    + (IF SomePatternIn(config.system_descriptions, args.system_desc)
       THEN config.priority ELSE 0)

\* C27: _match_patterns returns the profile with the highest score above
\* zero, the first declared among those with that score, and the default
\* device-type id when no profile scores above zero.
C27_HighestScoreWins ==
    fpc = "returned" =>
        LET types == args.patterns.device_types
            scoring == {i \in DOMAIN types : DoubledScore(types[i]) > 0}
            top == {i \in scoring :
                       \A j \in scoring : DoubledScore(types[j]) <= DoubledScore(types[i])}
        IN  IF scoring = {}
            THEN ret.device_type = args.patterns.default_device_type
            ELSE \E i \in top : /\ \A j \in top : i <= j
                                /\ ret.device_type = types[i].id

\* a tie between a platform match and a description match of twice the
\* priority, won by the profile declared first
C27_Witness ==
    /\ fpc = "returned"
    /\ Len(args.patterns.device_types) = 2
    /\ DoubledScore(args.patterns.device_types[1]) = 20
    /\ DoubledScore(args.patterns.device_types[2]) = 20
    /\ args.patterns.device_types[1].priority = 20
    /\ args.patterns.device_types[2].priority = 10
    /\ ret.device_type = ProfileIds[1]

----------------------------------------------------------------------------
(* Properties of the classifier, continued (checked under SpecClassify) *)

\* C28: a neighbor with an empty capability string is crawlable when no
\* filter set is supplied; when one is supplied it is crawlable if and only
\* if the set allows routers or allows switches.
C28_EmptyCapabilities ==
    (fpc = "returned" /\ args.capabilities = <<>>) =>
        IF args.filters = NoFilters
        THEN ret.crawl
        ELSE ret.crawl <=> (args.filters["include_routers"]
                            \/ args.filters["include_switches"])

\* an empty capability string refused by a filter set that allows phones and
\* servers but neither routers nor switches
C28_Witness ==
    /\ fpc = "returned"
    /\ args.capabilities = <<>>
    /\ args.filters # NoFilters
    /\ ~args.filters["include_routers"]
    /\ ~args.filters["include_switches"]
    /\ args.filters["include_phones"]
    /\ args.filters["include_servers"]
    /\ ~ret.crawl
    /\ ret.cdp = None

----------------------------------------------------------------------------
(* Properties of render_topology_tree, continued (checked under SpecRender) *)

\* the places of the device lines of the rendered text
DeviceLines(lines) == {i \in DOMAIN lines : lines[i].kind = "device"}

\* C29: render_topology_tree never revisits a device: each device appears as
\* a node line at most once, also when the adjacency contains a cycle.
C29_NoRevisit ==
    fpc = "returned" =>
        \A i, j \in DeviceLines(ret) : ret[i].node = ret[j].node => i = j

\* the connection line shows the link: its protocol tags, its two interfaces
\* (from either end) and its remote IP when it has one
ShowsLink(line, link) ==
    /\ line.protocols = link.protocols
    /\ \/ line.local_intf = link.local_intf /\ line.remote_intf = link.remote_intf
       \/ line.local_intf = link.remote_intf /\ line.remote_intf = link.local_intf
    /\ line.remote_ip = (IF link.remote_ip = None THEN "" ELSE link.remote_ip)

\* C30: for every parent-child edge drawn there is a Link between the two
\* devices in one direction or the other, and the connection line shows that
\* Link's interfaces, protocol tags and remote IP, also when the only Link
\* between them was recorded from the child's side.
C30_EdgeShowsItsLink ==
    fpc = "returned" =>
        \A i \in DeviceLines(ret) : \A j \in ChildLinks(ret, i) :
            \E k \in DOMAIN args.links :
                /\ {args.links[k].local_device, args.links[k].remote_device}
                     = {ret[i].node, ret[j + 1].node}
                /\ ShowsLink(ret[j], args.links[k])

----------------------------------------------------------------------------
(* The LLDP parser. A line is a sequence of tokens as in the CDP parser; the *)
(* tokens are cut so that a label is a prefix of a line as a string exactly *)
(* when its tokens are a prefix of the tokens of the line.                  *)

ChassisIdLabel == <<"Chassis", Sp, "id", ":">>
SystemNameLabel == <<"System", Sp, "Name", ":">>
LldpPortIdLabel == <<"Port", Sp, "id", ":">>
LocalPortIdLabel == <<"Local", Sp, "Port", Sp, "id", ":">>
SystemDescriptionLabel == <<"System", Sp, "Description", ":">>
SystemCapabilitiesLabel == <<"System", Sp, "Capabilities", ":">>
\* "Management Addresses:" and "Management Address:"
ManagementHeaders ==
    {<<"Management", Sp, "Addresses", ":">>, <<"Management", Sp, "Address", ":">>}
LldpIpLabel == <<"IP", ":">>

\* the body of "for line in output.splitlines()", on
\* st = [neighbors, current, in_mgmt_addresses]; st.branches keeps, line by
\* line, the branch of the if/elif chain that took the line
LldpLine(st, line) ==
    LET line_stripped == Strip(line)
        took(branch) == Append(st.branches, branch)
    IN
    IF StartsWith(line_stripped, ChassisIdLabel)
    THEN [neighbors |-> FlushCurrent(st.neighbors, st.current),
          current |-> SetField(IF DOMAIN st.current # {} THEN <<>> ELSE st.current,
                               "remote_platform",
                               Strip(Split(line_stripped, ChassisIdLabel)[2])),
          in_mgmt_addresses |-> FALSE,
          branches |-> took("chassis_id")]
    ELSE IF StartsWith(line_stripped, SystemNameLabel)
    THEN LET name == Strip(Split(line_stripped, SystemNameLabel)[2])
         IN  [st EXCEPT !.current = SetField(@, "remote_device", Split(name, <<".">>)[1]),
                        !.in_mgmt_addresses = FALSE,
                        !.branches = took("system_name")]
    ELSE IF StartsWith(line_stripped, LldpPortIdLabel)
    THEN [st EXCEPT !.current = SetField(@, "remote_intf",
                                         Strip(Split(line_stripped, LldpPortIdLabel)[2])),
                    !.in_mgmt_addresses = FALSE,
                    !.branches = took("port_id")]
    ELSE IF StartsWith(line_stripped, LocalPortIdLabel)
    THEN [st EXCEPT !.current = SetField(@, "local_intf",
                                         Strip(Split(line_stripped, LocalPortIdLabel)[2])),
                    !.in_mgmt_addresses = FALSE,
                    !.branches = took("local_port_id")]
    ELSE IF StartsWith(line_stripped, SystemDescriptionLabel)
    THEN [st EXCEPT !.current = SetField(@, "system_description", <<>>),
                    !.in_mgmt_addresses = FALSE,
                    !.branches = took("description_header")]
    ELSE IF /\ "system_description" \in DOMAIN st.current
            /\ line_stripped # <<>>
            /\ ~\E t \in {<<"Time", Sp, "remaining">>, <<"System", Sp, "Capabilities">>,
                          <<"Enabled", Sp, "Capabilities">>, <<"Management">>} :
                    StartsWith(line_stripped, t)
    THEN LET so_far == st.current["system_description"]
         IN  [st EXCEPT !.current =
                    SetField(@, "system_description",
                             (IF so_far # <<>> THEN so_far \o <<Sp>> ELSE so_far)
                                 \o line_stripped),
                        !.branches = took("description_line")]
    ELSE IF StartsWith(line_stripped, SystemCapabilitiesLabel)
    THEN [st EXCEPT !.current = SetField(@, "remote_capabilities",
                                         Strip(Split(line_stripped,
                                                     SystemCapabilitiesLabel)[2])),
                    !.in_mgmt_addresses = FALSE,
                    !.branches = took("system_capabilities")]
    ELSE IF \E header \in ManagementHeaders : StartsWith(line_stripped, header)
    THEN [st EXCEPT !.in_mgmt_addresses = TRUE,
                    !.branches = took("management_header")]
    ELSE IF st.in_mgmt_addresses /\ StartsWith(line_stripped, LldpIpLabel)
    THEN LET ip_addr == Strip(Split(line_stripped, LldpIpLabel)[2])
         IN  [st EXCEPT !.current = IF ip_addr # <<>>
                                    THEN SetField(@, "remote_ip", ip_addr) ELSE @,
                        !.branches = took("management_ip")]
    ELSE IF line_stripped # <<>> /\ st.in_mgmt_addresses
    THEN [st EXCEPT !.in_mgmt_addresses =
                        Head(line_stripped) \in {"IP", "IPv4", "IPv6", "Other"},
                    !.branches = took("management_other")]
    ELSE [st EXCEPT !.branches = took("none")]

RECURSIVE LldpLines(_, _, _)
LldpLines(st, lines, i) ==
    IF i > Len(lines) THEN st
    ELSE LldpLines(LldpLine(st, lines[i]), lines, i + 1)

\* the state of the loop of parse_lldp_neighbors_detail after the last line
LldpLoopEnd(output) ==
    LldpLines([neighbors |-> <<>>, current |-> <<>>, in_mgmt_addresses |-> FALSE,
               branches |-> <<>>], output, 1)

\* parse_lldp_neighbors_detail(output), output given as its lines
parse_lldp_neighbors_detail(output) ==
    LET st == LldpLoopEnd(output)
    IN  FlushCurrent(st.neighbors, st.current)

----------------------------------------------------------------------------
(* parse_lldp_neighbors_detail on its own (SpecParseLldp) *)

\* the lines of the LLDP outputs in MOCK_DEVICES
LldpLinePool ==
    {ChassisIdLabel \o <<Sp, "aabb.cc00.1122">>,
     SystemNameLabel \o <<Sp, "DIST-SW-01">>,
     SystemDescriptionLabel \o <<Sp>>,
     <<"Cisco", Sp, "IOS", Sp, "Software">>,
     <<"Time", Sp, "remaining", ":", Sp, "112", Sp, "seconds">>,
     SystemCapabilitiesLabel \o <<Sp, "B", ",", "R">>,
     <<"Management", Sp, "Addresses", ":">>,
     <<Sp, Sp, Sp, Sp>> \o LldpIpLabel \o <<Sp, "192.168.1.10">>}

ParseLldpInit ==
    /\ MergeIdle
    /\ CrawlIdle
    /\ fpc = "call"
    /\ \E output \in SeqUpTo(LldpLinePool, MaxLines) : args = [output |-> output]
    /\ ret = <<>>

\* parse_lldp_neighbors_detail(output); branches is the branch each line took
ParseLldp ==
    /\ fpc = "call"
    /\ fpc' = "returned"
    /\ ret' = [neighbors |-> parse_lldp_neighbors_detail(args.output),
               branches |-> LldpLoopEnd(args.output).branches]
    /\ UNCHANGED args
    /\ UNCHANGED mergeVars
    /\ UNCHANGED crawlVars

ParseLldpNext == ParseLldp

SpecParseLldp == ParseLldpInit /\ [][ParseLldpNext]_vars

----------------------------------------------------------------------------
(* Properties of parse_lldp_neighbors_detail (checked under SpecParseLldp) *)

\* line k of the output is a line of the given kind
IsChassisLine(k) == StartsWith(Strip(args.output[k]), ChassisIdLabel)
IsDescriptionHeader(k) == StartsWith(Strip(args.output[k]), SystemDescriptionLabel)
IsTerminatorLine(k) ==
    \E t \in {<<"Time", Sp, "remaining">>, <<"System", Sp, "Capabilities">>,
              <<"Management", Sp, "Addresses", ":">>,
              <<"Management", Sp, "Address", ":">>} :
        StartsWith(Strip(args.output[k]), t)
IsManagementHeader(k) ==
    \/ StartsWith(Strip(args.output[k]), <<"Management", Sp, "Addresses", ":">>)
    \/ StartsWith(Strip(args.output[k]), <<"Management", Sp, "Address", ":">>)
IsIpLine(k) ==
    /\ StartsWith(Strip(args.output[k]), <<"IP", ":">>)
    /\ Len(Strip(args.output[k])) > 2

\* lines h and k are in the same neighbor block: no chassis line after h up to k
SameBlock(h, k) == \A j \in (h + 1)..k : ~IsChassisLine(j)

\* C31: the accumulation opened by a system-description header ends at the
\* first terminator line: a line that is appended to the description has no
\* terminator line between the description header before it and itself.
C31_AccumulationEnds ==
    fpc = "returned" =>
        \A k \in DOMAIN args.output :
            ret.branches[k] = "description_line" =>
                \E h \in 1..(k - 1) :
                    /\ IsDescriptionHeader(h)
                    /\ SameBlock(h, k)
                    /\ \A j \in (h + 1)..(k - 1) : ~IsDescriptionHeader(j)
                    /\ \A j \in (h + 1)..(k - 1) : ~IsTerminatorLine(j)

\* the IP sub-section is open at line k: a management-address header came
\* before in the block and only continuation lines of the IP family since
IpSectionOpen(k) ==
    \E m \in 1..(k - 1) :
        /\ IsManagementHeader(m)
        /\ SameBlock(m, k)
        /\ \A j \in (m + 1)..(k - 1) :
              LET l == Strip(args.output[j])
              IN  l = <<>> \/ Head(l) \in {"IP", "IPv4", "IPv6", "Other"}

\* line k is in the last neighbor block and no IP-label line comes after it
LastIpLine(k) ==
    \A j \in (k + 1)..Len(args.output) : ~IsChassisLine(j) /\ ~IsIpLine(j)

\* C32: an IP-label line met while the IP sub-section is open sets the remote
\* management IP of the record, also when a system-description header came
\* earlier in the block: the line is taken as a management IP, and when it is
\* the last one of the last block the last record holds its address.
C32_ManagementIpSet ==
    fpc = "returned" =>
        \A k \in DOMAIN args.output :
            (IsIpLine(k) /\ IpSectionOpen(k)) =>
                /\ ret.branches[k] = "management_ip"
                /\ LastIpLine(k) =>
                      /\ ret.neighbors # <<>>
                      /\ "remote_ip" \in DOMAIN ret.neighbors[Len(ret.neighbors)]
                      /\ ret.neighbors[Len(ret.neighbors)]["remote_ip"]
                            = Strip(Split(Strip(args.output[k]), <<"IP", ":">>)[2])

----------------------------------------------------------------------------
(* Properties of the frontier of a crawl, continued (checked under Spec) *)

\* the polled device at that depth reported a neighbor with that address
ReportedAtDepth(ip, depth) ==
    \E p \in hist.polled :
        /\ <<p, depth>> \in hist.conn
        /\ \E i \in DOMAIN hist.mergedOf[p] :
              Get(hist.mergedOf[p][i], "remote_ip", None) = ip

\* C33: every frontier entry has depth at most max_depth + 1: the seed has
\* depth 0 and every other entry has the depth of the polled device that
\* reported it plus one.
C33_DepthBound ==
    \A i \in DOMAIN queue :
        /\ queue[i].depth \in 0..(max_depth + 1)
        /\ queue[i].depth = 0 => queue[i].ip = SeedIp
        /\ queue[i].depth > 0 => ReportedAtDepth(queue[i].ip, queue[i].depth - 1)

\* an entry one level below the deepest level that is polled, reported by a
\* device polled at that deepest level
C33_Witness ==
    /\ max_depth = MaxDepthArg
    /\ \E i \in DOMAIN queue :
          /\ queue[i].depth = max_depth + 1
          /\ ReportedAtDepth(queue[i].ip, max_depth)

\* the record carries neither a platform string nor a system description
NoPlatformNoDescription(neighbor) ==
    /\ ("remote_platform" \in DOMAIN neighbor => neighbor["remote_platform"] = <<>>)
    /\ ("system_description" \in DOMAIN neighbor
            => neighbor["system_description"] = <<>>)

\* the processing of a record without platform and description leaves the
\* frontier as it is and adds the Link of the record to the polled device
BareRecordStep ==
    (pc = "nbr" /\ neighbors # <<>> /\ NoPlatformNoDescription(Head(neighbors))) =>
        /\ queue' = queue
        /\ \E i \in DOMAIN devices'[cur.hostname].links :
              LET link == devices'[cur.hostname].links[i]
              IN  /\ i > Len(devices[cur.hostname].links)
                  /\ link.remote_device = Get(Head(neighbors), "remote_device", "Unknown")
                  /\ link.remote_ip = Get(Head(neighbors), "remote_ip", None)

\* C34: a neighbor record that carries neither a platform string nor a system
\* description is never enqueued, whatever its capabilities and even when it
\* has a management IP; its Link is still added.
C34_BareRecordNotQueued == [][BareRecordStep]_vars

\* a record with router capabilities and an unvisited management IP, but no
\* platform and no description, was processed: linked and not queued
C34_Witness ==
    /\ pc = "nbr"
    /\ neighbors = <<>>
    /\ Len(cur.merged) = 1
    /\ NoPlatformNoDescription(cur.merged[1])
    /\ "R" \in CapsOf(cur.merged[1]["remote_capabilities"])
    /\ HasRemoteIp(cur.merged[1])
    /\ cur.merged[1]["remote_ip"] \notin visited
    /\ Len(queue) = cur.qlen
    /\ \E i \in DOMAIN devices[cur.hostname].links :
          devices[cur.hostname].links[i].remote_ip = cur.merged[1]["remote_ip"]

----------------------------------------------------------------------------
(* Properties of render_topology_tree, the devices rendered *)
(* (checked under SpecRender)                               *)

\* the devices joined to those of S by a chain of Links, in either direction
RECURSIVE ComponentOf(_)
ComponentOf(S) ==
    LET step == S \cup {h \in DOMAIN args.topology :
                          \E x \in S : {x, h} \in EdgesOf(args.links)}
    IN  IF step = S THEN S ELSE ComponentOf(step)

\* the root of the rendering: the one given, else the first device
RootOf == IF args.root = None THEN args.order[1] ELSE args.root

\* the devices of the device lines of the rendered text
Rendered == {ret[i].node : i \in DeviceLines(ret)}

\* C35: the devices in the output of render_topology_tree are exactly the
\* devices connected to the root in the undirected adjacency view: every
\* device reachable from the root is rendered and no other device is.
C35_RendersComponent ==
    (fpc = "returned" /\ args.order # <<>>) => Rendered = ComponentOf({RootOf})

\* a Topology of two components rendered from a device of one of them: the
\* devices of that component are rendered, the other devices are not
C35_Witness ==
    /\ fpc = "returned"
    /\ args.order # <<>>
    /\ RootOf \in DOMAIN args.topology
    /\ Cardinality(Rendered) >= 2
    /\ Cardinality(DOMAIN args.topology \ Rendered) >= 2
    /\ Rendered = ComponentOf({RootOf})
    /\ \A h \in DOMAIN args.topology \ Rendered :
          \E k \in DOMAIN args.links : h \in {args.links[k].local_device,
                                                args.links[k].remote_device}

====
